---- MODULE Spec2Model ----
(***************************************************************************)
(* Verification model of the election dashboard's data pipeline:           *)
(*   - ElectionDataCleaner (data_cleaner.py): the tally file is parsed,    *)
(*     split by its note column, stripped, grouped, partitioned and keyed; *)
(*   - assign_bivariate_category and its use in load_and_merge_data        *)
(*     (map_utils.py).                                                     *)
(* Text is modelled as sequences: a numeric cell and a note are sequences  *)
(* of one-character strings, a vote_choice label is a sequence of tokens   *)
(* (a run of text, one blank " ", "(" or ")"), so that the parse, the      *)
(* slices and the regular expression act on it as the code's do.           *)
(* Percentages are integers in hundredths of a percent (the code rounds    *)
(* to two decimals), NaN is the no-data value.                             *)
(***************************************************************************)
EXTENDS Integers, Sequences, FiniteSets, TLC

VARIABLES
    election_type,      \* ElectionDataCleaner.election_type
    raw,                \* the rows of the file at ElectionDataCleaner.filepath
    _df_candidate,      \* ElectionDataCleaner._df_candidate
    _df_ballot_type,    \* ElectionDataCleaner._df_ballot_type
    _merged_districts,  \* ElectionDataCleaner._merged_districts
    outcome,            \* how the last operation on the cleaner ended
    gdf,                \* the joined district table of load_and_merge_data
    call,               \* the last direct call of assign_bivariate_category
    pivot,              \* the pivoted per-district table of load_and_merge_data
    census,             \* the tract table of a CensusDataCleaner
    run                 \* a run of a constructor or of a loader function

vars == <<election_type, raw, _df_candidate, _df_ballot_type, _merged_districts,
          outcome, gdf, call, pivot, census, run>>

\* the state outside the tally cleaner and the joined table
downstream == <<pivot, census, run>>

----------------------------------------------------------------------------
(* Bounds of the model *)

\* the largest number of rows of a tally file
MaxRows == 3

\* the largest number of boundary districts of the joined table
MaxDistricts == 2

----------------------------------------------------------------------------
(* Configuration: data_cleaner.py ELECTION_CONFIGS *)

ELECTION_CONFIGS ==
    [mayor |->
        [candidates |-> <<"Andrew M. Cuomo", "Curtis A. Sliwa", "Eric L. Adams",
                          "Irene Estrada", "Jim Walden", "Joseph Hernandez",
                          "Zohran Kwame Mamdani", "Scattered">>,
         ballot_types |-> <<"Public Counter", "Absentee / Military", "Affidavit",
                            "Manually Counted Emergency">>,
         name_map |-> ("Andrew M. Cuomo" :> "Andrew Cuomo") @@
                      ("Curtis A. Sliwa" :> "Curtis Sliwa") @@
                      ("Eric L. Adams" :> "Eric Adams") @@
                      ("Zohran Kwame Mamdani" :> "Zohran Mamdani")],
     president |->
        [candidates |-> <<"Donald J. Trump / JD Vance", "Kamala D. Harris / Tim Walz",
                          "Scattered">>,
         ballot_types |-> <<"Public Counter", "Absentee / Military", "Affidavit",
                            "Manually Counted Emergency", "Federal">>,
         name_map |-> ("Donald J. Trump / JD Vance" :> "Trump") @@
                      ("Kamala D. Harris / Tim Walz" :> "Harris")]]

\* self.config of a cleaner constructed for election type t
Config(t) == ELECTION_CONFIGS[t]

Range(s) == {s[i] : i \in DOMAIN s}

----------------------------------------------------------------------------
(* Values *)

\* Python's None in a cache attribute, and a DataFrame in it
None == [isNone |-> TRUE]

Df(rows) == [isNone |-> FALSE, rows |-> rows]

\* the result of a conversion: a value, or the ValueError it raises
Ok(v) == [ok |-> TRUE, val |-> v]

ValueError == [ok |-> FALSE]

\* the note of a row that is not merged
IN_PLAY == <<"I", "N", "-", "P", "L", "A", "Y">>

----------------------------------------------------------------------------
(* Text: int(), str.replace, slicing, the regular expression *)

DigitVal == ("0" :> 0) @@ ("1" :> 1) @@ ("2" :> 2) @@ ("3" :> 3) @@ ("4" :> 4) @@
            ("5" :> 5) @@ ("6" :> 6) @@ ("7" :> 7) @@ ("8" :> 8) @@ ("9" :> 9)

IsDigit(c) == c \in DOMAIN DigitVal

RECURSIVE DigitsValue(_)
DigitsValue(s) ==
    IF s = <<>> THEN 0
    ELSE 10 * DigitsValue(SubSeq(s, 1, Len(s) - 1)) + DigitVal[s[Len(s)]]

RECURSIVE StripBlanks(_)
\* the blanks int() ignores at both ends
StripBlanks(s) ==
    IF s = <<>> THEN s
    ELSE IF Head(s) = " " THEN StripBlanks(Tail(s))
    ELSE IF s[Len(s)] = " " THEN StripBlanks(SubSeq(s, 1, Len(s) - 1))
    ELSE s

\* astype(int) of one cell holding text, that is int(): base 10, an optional
\* sign, ValueError on anything but a non-empty run of digits
AsTypeInt(s) ==
    LET t == StripBlanks(s)
        signed == t # <<>> /\ Head(t) \in {"+", "-"}
        d == IF signed THEN Tail(t) ELSE t
    IN  IF d # <<>> /\ \A i \in DOMAIN d : IsDigit(d[i])
        THEN Ok(IF signed /\ Head(t) = "-" THEN 0 - DigitsValue(d) ELSE DigitsValue(d))
        ELSE ValueError

\* .str.replace(',', '')
RemoveCommas(s) == SelectSeq(s, LAMBDA c : c # ",")

\* a Python slice bound i of a string of length n
SliceBound(i, n) ==
    IF i < 0 THEN (IF n + i < 0 THEN 0 ELSE n + i)
    ELSE (IF i > n THEN n ELSE i)

\* s[a:b]
PySlice(s, a, b) ==
    LET lo == SliceBound(a, Len(s))
        hi == SliceBound(b, Len(s))
    IN  IF lo >= hi THEN <<>> ELSE SubSeq(s, lo + 1, hi)

\* s[a:]
PySliceFrom(s, a) == SubSeq(s, SliceBound(a, Len(s)) + 1, Len(s))

RECURSIVE Text(_)
\* the string a token sequence spells
Text(toks) ==
    IF toks = <<>> THEN "" ELSE Head(toks) \o Text(Tail(toks))

\* the labels left as they are, the regular expression never applied
StripNothing(toks) == toks

\* .str.replace(r'\s*\(.*\)', '', regex=True): the leftmost match starts at
\* the blanks before the first "(" and, .* being greedy, ends at the last
\* ")" of the label; without a ")" after the first "(" nothing matches
StripParens(toks) ==
    LET opens  == {i \in DOMAIN toks : toks[i] = "("}
        closes == {j \in DOMAIN toks : toks[j] = ")"}
    IN  IF opens = {} THEN toks
        ELSE
          LET i == CHOOSE x \in opens : \A y \in opens : x <= y
              after == {j \in closes : j > i}
          IN  IF after = {} THEN toks
              ELSE
                LET j == CHOOSE x \in after : \A y \in after : y <= x
                    starts == {k \in 1..i : \A m \in k..(i - 1) : toks[m] = " "}
                    k == CHOOSE x \in starts : \A y \in starts : x <= y
                IN  SubSeq(toks, 1, k - 1) \o SubSeq(toks, j + 1, Len(toks))

----------------------------------------------------------------------------
(* Order of strings: the groupby of line 63 sorts its keys *)

\* the strings of the model in Python's string order
StringOrder ==
    <<"Absentee / Military", "Affidavit", "Andrew Cuomo", "Andrew M. Cuomo",
      "Bronx", "Curtis A. Sliwa", "Curtis Sliwa", "Donald J. Trump / JD Vance",
      "Eric Adams", "Eric L. Adams", "Federal", "Harris", "Irene Estrada",
      "Jim Walden", "Joseph Hernandez", "Kamala D. Harris / Tim Walz", "Kings",
      "Manually Counted Emergency", "New York", "Public Counter", "Queens",
      "Richmond", "Scattered", "Trump", "Write-In", "Zohran Kwame Mamdani",
      "Zohran Kwame Mamdani (Working Families)", "Zohran Mamdani">>

StrRank(s) == CHOOSE i \in DOMAIN StringOrder : StringOrder[i] = s

StrLess(a, b) == StrRank(a) < StrRank(b)

----------------------------------------------------------------------------
(* ElectionDataCleaner.load_and_clean *)

\* lines 54-55 succeed: every district number and every vote count parses
TypesOk(rows) ==
    \A i \in DOMAIN rows :
        /\ AsTypeInt(rows[i].assembly_district).ok
        /\ AsTypeInt(rows[i].election_district).ok
        /\ AsTypeInt(RemoveCommas(rows[i].vote_count)).ok

\* lines 54-55: the frame with its three numeric columns converted
ConvertTypes(rows) ==
    [i \in DOMAIN rows |->
        [assembly_district |-> AsTypeInt(rows[i].assembly_district).val,
         election_district |-> AsTypeInt(rows[i].election_district).val,
         county |-> rows[i].county,
         note |-> rows[i].note,
         vote_choice |-> rows[i].vote_choice,
         vote_count |-> AsTypeInt(RemoveCommas(rows[i].vote_count)).val]]

RECURSIVE DropDuplicates(_)
\* drop_duplicates(): the first occurrence of each row is kept, in order
DropDuplicates(s) ==
    IF s = <<>> THEN s
    ELSE LET init == DropDuplicates(SubSeq(s, 1, Len(s) - 1))
             last == s[Len(s)]
         IN  IF last \in Range(init) THEN init ELSE Append(init, last)

\* lines 81-82: the rows that are not in play, their four columns, no duplicates
MergedNotes(df) ==
    LET notInPlay == SelectSeq(df, LAMBDA r : r.note # IN_PLAY)
    IN  DropDuplicates([i \in DOMAIN notInPlay |->
            [assembly_district |-> notInPlay[i].assembly_district,
             election_district |-> notInPlay[i].election_district,
             county |-> notInPlay[i].county,
             note |-> notInPlay[i].note]])

\* lines 83-84 succeed: both two-character fields of every note parse
MergedOk(df) ==
    \A r \in Range(MergedNotes(df)) :
        /\ AsTypeInt(PySlice(r.note, -5, -3)).ok
        /\ AsTypeInt(PySliceFrom(r.note, -2)).ok

\* the two fields of the note taken for each other
ExtractMergedSwapped(df) ==
    LET merged == MergedNotes(df)
    IN  [i \in DOMAIN merged |->
            [source_ad |-> merged[i].assembly_district,
             source_ed |-> merged[i].election_district,
             county |-> merged[i].county,
             reported_ed |-> AsTypeInt(PySliceFrom(merged[i].note, -2)).val,
             reported_ad |-> AsTypeInt(PySlice(merged[i].note, -5, -3)).val]]

\* _extract_merged_districts: lines 83-88
ExtractMergedDistricts(df) ==
    LET merged == MergedNotes(df)
    IN  [i \in DOMAIN merged |->
            [source_ad |-> merged[i].assembly_district,
             source_ed |-> merged[i].election_district,
             county |-> merged[i].county,
             reported_ed |-> AsTypeInt(PySlice(merged[i].note, -5, -3)).val,
             reported_ad |-> AsTypeInt(PySliceFrom(merged[i].note, -2)).val]]

\* the rows of every note taken for in-play, the label stripped
AnyNoteStripped(df) ==
    [i \in DOMAIN df |->
        [assembly_district |-> df[i].assembly_district,
         election_district |-> df[i].election_district,
         county |-> df[i].county,
         vote_choice |-> Text(StripParens(df[i].vote_choice)),
         vote_count |-> df[i].vote_count]]

\* lines 61-62: the in-play rows without their note, the label stripped
InPlayStripped(df) ==
    LET inPlay == SelectSeq(df, LAMBDA r : r.note = IN_PLAY)
    IN  [i \in DOMAIN inPlay |->
            [assembly_district |-> inPlay[i].assembly_district,
             election_district |-> inPlay[i].election_district,
             county |-> inPlay[i].county,
             vote_choice |-> Text(StripParens(inPlay[i].vote_choice)),
             vote_count |-> inPlay[i].vote_count]]

\* the group key of line 63
GroupKey(r) == <<r.assembly_district, r.election_district, r.county, r.vote_choice>>

\* the order in which groupby emits its keys
KeyLess(a, b) ==
    \/ a[1] < b[1]
    \/ a[1] = b[1] /\ a[2] < b[2]
    \/ a[1] = b[1] /\ a[2] = b[2] /\ StrLess(a[3], b[3])
    \/ a[1] = b[1] /\ a[2] = b[2] /\ a[3] = b[3] /\ StrLess(a[4], b[4])

RECURSIVE SortKeys(_)
SortKeys(S) ==
    IF S = {} THEN <<>>
    ELSE LET least == CHOOSE k \in S : \A o \in S \ {k} : KeyLess(k, o)
         IN  <<least>> \o SortKeys(S \ {least})

RECURSIVE SumVoteCount(_)
\* ['vote_count'].sum() over the rows of a frame
SumVoteCount(rows) ==
    IF rows = <<>> THEN 0
    ELSE Head(rows).vote_count + SumVoteCount(Tail(rows))

\* the first count of a group taken for its total
GroupFirst(rows) == Head(rows).vote_count

\* the aggregate of one group of line 63
GroupTotal(rows) == SumVoteCount(rows)

\* line 63: one row per key, in key order, with the total of its group
GroupBySum(df) ==
    LET keys == SortKeys({GroupKey(df[i]) : i \in DOMAIN df})
    IN  [n \in DOMAIN keys |->
            [assembly_district |-> keys[n][1],
             election_district |-> keys[n][2],
             county |-> keys[n][3],
             vote_choice |-> keys[n][4],
             vote_count |-> GroupTotal(SelectSeq(df, LAMBDA r : GroupKey(r) = keys[n]))]]

\* line 66: vote_choice.isin(ballot_types)
IsBallotType(cfg, choice) == choice \in Range(cfg.ballot_types)

\* whatever is no ballot type taken for a candidate
IsNoBallotType(cfg, choice) == choice \notin Range(cfg.ballot_types)

\* the short names of the name map taken for roster entries as well
IsCandidateOrShortName(cfg, choice) ==
    choice \in Range(cfg.candidates) \cup {cfg.name_map[k] : k \in DOMAIN cfg.name_map}

\* line 67: vote_choice.isin(candidates)
IsCandidate(cfg, choice) == choice \in Range(cfg.candidates)

\* the name map left unapplied
ReplaceNothing(cfg, choice) == choice

\* line 71: replace(name_map) on one label
ReplaceByNameMap(cfg, choice) ==
    IF choice \in DOMAIN cfg.name_map THEN cfg.name_map[choice] ELSE choice

\* the key without its factor
ElectDistPlain(ad, ed) == ad + ed

\* lines 74-75
ElectDist(ad, ed) == (ad * 1000) + ed

\* lines 67, 70-71, 75
CandidateTable(cfg, grouped) ==
    LET sel == SelectSeq(grouped, LAMBDA r : IsCandidate(cfg, r.vote_choice))
    IN  [i \in DOMAIN sel |->
            [assembly_district |-> sel[i].assembly_district,
             election_district |-> sel[i].election_district,
             county |-> sel[i].county,
             vote_choice |-> ReplaceByNameMap(cfg, sel[i].vote_choice),
             vote_count |-> sel[i].vote_count,
             ElectDist |-> ElectDist(sel[i].assembly_district, sel[i].election_district)]]

\* lines 66, 74
BallotTypeTable(cfg, grouped) ==
    LET sel == SelectSeq(grouped, LAMBDA r : IsBallotType(cfg, r.vote_choice))
    IN  [i \in DOMAIN sel |->
            [assembly_district |-> sel[i].assembly_district,
             election_district |-> sel[i].election_district,
             county |-> sel[i].county,
             vote_choice |-> sel[i].vote_choice,
             vote_count |-> sel[i].vote_count,
             ElectDist |-> ElectDist(sel[i].assembly_district, sel[i].election_district)]]

\* load_and_clean succeeds on these rows: no conversion raises
LoadOk(rows) == TypesOk(rows) /\ MergedOk(ConvertTypes(rows))

\* the three tables load_and_clean computes for a contest from the rows
LoadTables(t, rows) ==
    LET df == ConvertTypes(rows)
        grouped == GroupBySum(InPlayStripped(df))
    IN  [candidate |-> CandidateTable(Config(t), grouped),
         ballot_type |-> BallotTypeTable(Config(t), grouped),
         merged |-> ExtractMergedDistricts(df)]

\* a row that passes the conversions of lines 54-55
RowParses(r) == TypesOk(<<r>>)

\* the rows that do not parse skipped, the load continued with the others
LoadSkippingBadRows ==
    LET good == SelectSeq(raw, RowParses)
    IN  IF MergedOk(ConvertTypes(good))
        THEN LET t == LoadTables(election_type, good)
             IN  /\ _df_candidate' = Df(t.candidate)
                 /\ _df_ballot_type' = Df(t.ballot_type)
                 /\ _merged_districts' = Df(t.merged)
                 /\ outcome' = "returned"
        ELSE /\ UNCHANGED <<_df_candidate, _df_ballot_type, _merged_districts>>
             /\ outcome' = "ValueError"

\* the tables of a load added to those a cache already holds
LoadAccumulating ==
    IF LoadOk(raw)
    THEN LET t == LoadTables(election_type, raw)
         IN  /\ _df_candidate' = Df((IF _df_candidate.isNone THEN <<>> ELSE _df_candidate.rows) \o t.candidate)
             /\ _df_ballot_type' = Df((IF _df_ballot_type.isNone THEN <<>> ELSE _df_ballot_type.rows) \o t.ballot_type)
             /\ _merged_districts' = Df((IF _merged_districts.isNone THEN <<>> ELSE _merged_districts.rows) \o t.merged)
             /\ outcome' = "returned"
    ELSE /\ UNCHANGED <<_df_candidate, _df_ballot_type, _merged_districts>>
         /\ outcome' = "ValueError"

\* the body of load_and_clean, lines 48-77: the three caches are set together,
\* or a ValueError leaves the cleaner as it was
LoadEffect ==
    IF LoadOk(raw)
    THEN LET t == LoadTables(election_type, raw)
         IN  /\ _df_candidate' = Df(t.candidate)
             /\ _df_ballot_type' = Df(t.ballot_type)
             /\ _merged_districts' = Df(t.merged)
             /\ outcome' = "returned"
    ELSE /\ UNCHANGED <<_df_candidate, _df_ballot_type, _merged_districts>>
         /\ outcome' = "ValueError"

\* an explicit call of load_and_clean
load_and_clean ==
    /\ LoadEffect
    /\ UNCHANGED <<election_type, raw, gdf, call, downstream>>

\* the property loading whether or not its cache is set
df_candidate_eager ==
    /\ LoadEffect
    /\ UNCHANGED <<election_type, raw, gdf, call, downstream>>

\* the df_candidate property, lines 91-96
df_candidate ==
    /\ IF _df_candidate = None
       THEN LoadEffect
       ELSE outcome' = "returned"
            /\ UNCHANGED <<_df_candidate, _df_ballot_type, _merged_districts>>
    /\ UNCHANGED <<election_type, raw, gdf, call, downstream>>

\* the df_ballot_type property, lines 98-103
df_ballot_type ==
    /\ IF _df_ballot_type = None
       THEN LoadEffect
       ELSE outcome' = "returned"
            /\ UNCHANGED <<_df_candidate, _df_ballot_type, _merged_districts>>
    /\ UNCHANGED <<election_type, raw, gdf, call, downstream>>

\* the merged_districts property, lines 105-110
merged_districts ==
    /\ IF _merged_districts = None
       THEN LoadEffect
       ELSE outcome' = "returned"
            /\ UNCHANGED <<_df_candidate, _df_ballot_type, _merged_districts>>
    /\ UNCHANGED <<election_type, raw, gdf, call, downstream>>

CleanerNext == load_and_clean \/ df_candidate \/ df_ballot_type \/ merged_districts

----------------------------------------------------------------------------
(* map_utils.py: the bivariate classification *)

\* the no-data value of a percentage column (what pd.isna tests for)
NaN == -1

IsNa(x) == x = NaN

\* a > b and a <= b on floats: every comparison with NaN is False
Gt(a, b) == ~IsNa(a) /\ ~IsNa(b) /\ a > b

Le(a, b) == ~IsNa(a) /\ ~IsNa(b) /\ a <= b

\* threshold=50.0, in hundredths of a percent
DefaultThreshold == 5000

BIVARIATE_CATEGORY_ORDER ==
    <<"High M / High T", "High M / Low T", "Low M / High T", "Low M / Low T">>

\* a classifier of three levels per axis, the middle one 15 points wide
LevelOfThree(pct, threshold) ==
    IF Gt(pct, threshold) THEN "High"
    ELSE IF Gt(pct, threshold - 1500) THEN "Mid" ELSE "Low"

AssignOfNine(mamdani_pct, trump_pct, threshold) ==
    IF IsNa(mamdani_pct) \/ IsNa(trump_pct)
    THEN "Low M / Low T"
    ELSE LevelOfThree(mamdani_pct, threshold) \o " M / " \o
         LevelOfThree(trump_pct, threshold) \o " T"

\* the cut-point counted as High
AssignAtLeast(mamdani_pct, trump_pct, threshold) ==
    IF IsNa(mamdani_pct) \/ IsNa(trump_pct)
    THEN "Low M / Low T"
    ELSE IF mamdani_pct >= threshold /\ trump_pct >= threshold
    THEN "High M / High T"
    ELSE IF mamdani_pct >= threshold /\ trump_pct < threshold
    THEN "High M / Low T"
    ELSE IF mamdani_pct < threshold /\ trump_pct >= threshold
    THEN "Low M / High T"
    ELSE "Low M / Low T"

\* no test for missing data, and "not High" written for "Low": a missing
\* value lowers its own axis only
AssignPerAxis(mamdani_pct, trump_pct, threshold) ==
    IF Gt(mamdani_pct, threshold) /\ Gt(trump_pct, threshold)
    THEN "High M / High T"
    ELSE IF Gt(mamdani_pct, threshold) /\ ~Gt(trump_pct, threshold)
    THEN "High M / Low T"
    ELSE IF ~Gt(mamdani_pct, threshold) /\ Gt(trump_pct, threshold)
    THEN "Low M / High T"
    ELSE "Low M / Low T"

\* assign_bivariate_category, lines 43-53
assign_bivariate_category(mamdani_pct, trump_pct, threshold) ==
    IF IsNa(mamdani_pct) \/ IsNa(trump_pct)
    THEN "Low M / Low T"
    ELSE IF Gt(mamdani_pct, threshold) /\ Gt(trump_pct, threshold)
    THEN "High M / High T"
    ELSE IF Gt(mamdani_pct, threshold) /\ Le(trump_pct, threshold)
    THEN "High M / Low T"
    ELSE IF Le(mamdani_pct, threshold) /\ Gt(trump_pct, threshold)
    THEN "Low M / High T"
    ELSE "Low M / Low T"

\* the classification load_and_merge_data applies to one row, lines 121-124:
\* no threshold is passed, so the default is used
RowCategory(row) ==
    assign_bivariate_category(row.zohran_mamdani_pct, row.trump_pct, DefaultThreshold)

\* the new column has been added to the joined table
Categorized(table) ==
    \A i \in DOMAIN table : "bivariate_category" \in DOMAIN table[i]

\* load_and_merge_data, lines 119-125: gdf['bivariate_category'] = gdf.apply(...)
AssignCategories ==
    /\ gdf # <<>>
    /\ ~Categorized(gdf)
    /\ gdf' = [i \in DOMAIN gdf |->
                 [ElectDist |-> gdf[i].ElectDist,
                  zohran_mamdani_pct |-> gdf[i].zohran_mamdani_pct,
                  trump_pct |-> gdf[i].trump_pct,
                  bivariate_category |-> RowCategory(gdf[i])]]
    /\ UNCHANGED <<call, election_type, raw, _df_candidate, _df_ballot_type,
                   _merged_districts, outcome, downstream>>

\* the percentages and thresholds of the direct calls
CallPcts == {NaN, 0, 2000, 3500, 3501, 4500, 5000, 5001, 5500, 6000, 10000}

Thresholds == {0, 3500, 5000, 5500, 10000}

\* a call assign_bivariate_category(m, t, threshold) by any caller
CallAssign ==
    /\ \E m \in CallPcts, t \in CallPcts, th \in Thresholds :
          call' = [isNone |-> FALSE, mamdani_pct |-> m, trump_pct |-> t,
                   threshold |-> th,
                   result |-> assign_bivariate_category(m, t, th)]
    /\ UNCHANGED <<gdf, election_type, raw, _df_candidate, _df_ballot_type,
                   _merged_districts, outcome, downstream>>

----------------------------------------------------------------------------
(* Inputs *)

\* vote_choice labels of the tally files
MamdaniLabel == <<"Zohran Kwame Mamdani">>

MamdaniWorkingFamilies ==
    <<"Zohran Kwame Mamdani", " ", "(", "Working Families", ")">>

PublicCounterLabel == <<"Public Counter">>

ScatteredLabel == <<"Scattered">>

\* the note of a row of a district combined into ED 007 of AD 65
MergedNote == <<"0", "0", "7", "/", "6", "5">>

\* rows of one assembly district: two election districts, a candidate on two
\* ballot lines and a ballot type, small and thousands-separated counts, and a
\* row of a merged district
TallyRows ==
    {[assembly_district |-> <<"6", "5">>, election_district |-> ed,
      county |-> "New York", note |-> IN_PLAY, vote_choice |-> c[1],
      vote_count |-> c[2]] :
        ed \in {<<"1", "2">>, <<"1", "3">>},
        c \in {<<MamdaniLabel, <<"1", ",", "2", "3", "4">> >>,
               <<MamdaniLabel, <<"7">> >>,
               <<MamdaniWorkingFamilies, <<"7">> >>,
               <<PublicCounterLabel, <<"1", ",", "2", "3", "4">> >>}}
    \cup
    {[assembly_district |-> <<"6", "5">>, election_district |-> <<"1", "4">>,
      county |-> "New York", note |-> MergedNote, vote_choice |-> MamdaniLabel,
      vote_count |-> <<"7">>]}

\* rows that differ in their district numbers, with election districts on
\* both sides of 1000, in-play, of a candidate and of a ballot type
KeyRows ==
    {[assembly_district |-> d[1], election_district |-> d[2],
      county |-> "Kings", note |-> IN_PLAY, vote_choice |-> d[3],
      vote_count |-> <<"1">>] :
        d \in ({<<"1">>, <<"2">>} \X {<<"1">>, <<"2">>, <<"1", "0", "0", "1">>}
                  \X {ScatteredLabel})
              \cup
              ({<<"1">>, <<"2">>} \X {<<"1">>, <<"1", "0", "0", "1">>}
                  \X {PublicCounterLabel})}

\* the files of at most MaxRows rows over a set of rows
Files(rows) == UNION {[1..n -> rows] : n \in 0..MaxRows}

\* the percentages of the joined table
GdfPcts == {NaN, 0, 4500, 5000, 5001, 6000}

\* the joined tables before classification: one row per boundary district
BoundaryKeys == <<65012, 65013, 65014>>

JoinedTables ==
    UNION {[1..n -> [zohran_mamdani_pct : GdfPcts, trump_pct : GdfPcts]] :
              n \in 1..MaxDistricts}

WithKeys(t) ==
    [i \in DOMAIN t |->
        [ElectDist |-> BoundaryKeys[i],
         zohran_mamdani_pct |-> t[i].zohran_mamdani_pct,
         trump_pct |-> t[i].trump_pct]]

----------------------------------------------------------------------------
(* Specifications *)

\* the largest number of tracts in a Census response
MaxUnits == 3

\* the largest number of runs of load_and_merge_data in one session
MaxRuns == 2

\* a cleaner just constructed (lines 34-39) on a file over the given rows
InitCleaner(rows) ==
    /\ election_type \in DOMAIN ELECTION_CONFIGS
    /\ raw \in Files(rows)
    /\ _df_candidate = None
    /\ _df_ballot_type = None
    /\ _merged_districts = None
    /\ outcome = "constructed"
    /\ gdf = <<>>
    /\ call = None
    /\ pivot = None
    /\ census = None
    /\ run = None

Init == InitCleaner(TallyRows)

InitKey == InitCleaner(KeyRows)

\* no cleaner input; the classifier is called directly
InitClassifier ==
    /\ election_type = "mayor"
    /\ raw = <<>>
    /\ _df_candidate = None
    /\ _df_ballot_type = None
    /\ _merged_districts = None
    /\ outcome = "constructed"
    /\ gdf = <<>>
    /\ call = None
    /\ pivot = None
    /\ census = None
    /\ run = None

\* load_and_merge_data at line 119, the joined table built
InitBorough ==
    /\ election_type = "mayor"
    /\ raw = <<>>
    /\ _df_candidate = None
    /\ _df_ballot_type = None
    /\ _merged_districts = None
    /\ outcome = "constructed"
    /\ gdf \in {WithKeys(t) : t \in JoinedTables}
    /\ call = None
    /\ pivot = None
    /\ census = None
    /\ run = None

Next == CleanerNext

Spec == Init /\ [][Next]_vars

SpecKey == InitKey /\ [][Next]_vars

SpecClassifier == InitClassifier /\ [][CallAssign]_vars

SpecBorough == InitBorough /\ [][AssignCategories]_vars

----------------------------------------------------------------------------
(* Properties of ElectionDataCleaner *)

\* the rows of a cache, none while it is unset
Rows(cache) == IF cache.isNone THEN <<>> ELSE cache.rows

RECURSIVE TableVotes(_)
\* the votes a table carries: the sum of its vote_count column, nothing for
\* a table without that column
TableVotes(rows) ==
    IF rows = <<>> THEN 0
    ELSE (IF "vote_count" \in DOMAIN Head(rows) THEN Head(rows).vote_count ELSE 0)
         + TableVotes(Tail(rows))

\* the numbers a raw row states
RawCount(r) == AsTypeInt(RemoveCommas(r.vote_count)).val

RawAD(r) == AsTypeInt(r.assembly_district).val

RawED(r) == AsTypeInt(r.election_district).val

RECURSIVE RawVotes(_)
RawVotes(rows) ==
    IF rows = <<>> THEN 0 ELSE RawCount(Head(rows)) + RawVotes(Tail(rows))

InPlay(rows) == SelectSeq(rows, LAMBDA r : r.note = IN_PLAY)

\* a label without its trailing parenthetical ballot-line suffix
BaseLabel(toks) ==
    IF toks # <<>> /\ toks[Len(toks)] = ")" /\ \E i \in DOMAIN toks : toks[i] = "("
    THEN LET i == CHOOSE x \in DOMAIN toks :
                      toks[x] = "(" /\ \A y \in DOMAIN toks : toks[y] = "(" => y <= x
         IN  Text(StripBlanks(SubSeq(toks, 1, i - 1)))
    ELSE Text(toks)

Roster(t) == Range(ELECTION_CONFIGS[t].candidates)

BallotTypes(t) == Range(ELECTION_CONFIGS[t].ballot_types)

\* the canonical name of a roster entry in the contest's name map
CanonicalName(t, name) ==
    LET nm == ELECTION_CONFIGS[t].name_map
    IN  IF name \in DOMAIN nm THEN nm[name] ELSE name

CanonicalRoster(t) == {CanonicalName(t, c) : c \in Roster(t)}

Recognized(t, r) == BaseLabel(r.vote_choice) \in Roster(t) \cup BallotTypes(t)

OutputVotes ==
    TableVotes(Rows(_df_candidate)) + TableVotes(Rows(_df_ballot_type))

\* C1 as stated: after a load of a file whose labels are all recognized, the
\* votes of the candidate, merged-district and ballot-type tables add up to
\* the votes of all raw rows.
C1_VotesConserved ==
    (outcome = "returned" /\ \A i \in DOMAIN raw : Recognized(election_type, raw[i]))
    => OutputVotes + TableVotes(Rows(_merged_districts)) = RawVotes(raw)

\* C1 amended: the votes of the candidate and ballot-type tables add up to
\* the votes of the in-play raw rows when the labels of these are all
\* recognized; the merged-district table carries no votes.
C1_InPlayVotesConserved ==
    (outcome = "returned"
       /\ \A i \in DOMAIN raw :
             raw[i].note = IN_PLAY => Recognized(election_type, raw[i]))
    => /\ OutputVotes = RawVotes(InPlay(raw))
       /\ TableVotes(Rows(_merged_districts)) = 0

\* a load of recognized rows that went through the strip, the grouping, the
\* partition and the note split
C1_Witness ==
    /\ outcome = "returned"
    /\ \A i \in DOMAIN raw : Recognized(election_type, raw[i])
    /\ \E i, j \in DOMAIN raw :
          /\ i # j
          /\ raw[i].note = IN_PLAY /\ raw[j].note = IN_PLAY
          /\ raw[i].vote_choice = MamdaniWorkingFamilies
          /\ raw[j].vote_choice = MamdaniLabel
          /\ raw[i].election_district = raw[j].election_district
    /\ \E i \in DOMAIN raw : raw[i].note # IN_PLAY
    /\ Len(Rows(_df_candidate)) = 1
    /\ Len(Rows(_merged_districts)) = 1

\* the in-play rows of raw row r's district that name the candidate r names
SameCandidateRows(r) ==
    SelectSeq(InPlay(raw), LAMBDA q :
        /\ RawAD(q) = RawAD(r) /\ RawED(q) = RawED(r) /\ q.county = r.county
        /\ BaseLabel(q.vote_choice) = BaseLabel(r.vote_choice))

\* the records of the candidate table for raw row r's district and candidate
CandidateRecords(r) ==
    {n \in DOMAIN Rows(_df_candidate) :
        LET c == Rows(_df_candidate)[n]
        IN  /\ c.assembly_district = RawAD(r)
            /\ c.election_district = RawED(r)
            /\ c.county = r.county
            /\ c.vote_choice = CanonicalName(election_type, BaseLabel(r.vote_choice))}

\* C8: for every in-play district and roster candidate the candidate table
\* holds exactly one record, and its vote_count is the sum over the in-play
\* rows of the district that name the candidate once the parenthetical
\* suffix is removed.
C8_BallotLinesMerged ==
    outcome = "returned" =>
        \A i \in DOMAIN raw :
            (raw[i].note = IN_PLAY /\ BaseLabel(raw[i].vote_choice) \in Roster(election_type))
            => /\ Cardinality(CandidateRecords(raw[i])) = 1
               /\ \A n \in CandidateRecords(raw[i]) :
                     Rows(_df_candidate)[n].vote_count = RawVotes(SameCandidateRows(raw[i]))

\* one candidate on two ballot lines in one district, and in another district
C8_Witness ==
    /\ outcome = "returned"
    /\ election_type = "mayor"
    /\ \E i, j, k \in DOMAIN raw :
          /\ raw[i].note = IN_PLAY /\ raw[j].note = IN_PLAY /\ raw[k].note = IN_PLAY
          /\ raw[i].vote_choice = MamdaniWorkingFamilies
          /\ raw[j].vote_choice = MamdaniLabel
          /\ raw[k].vote_choice = MamdaniLabel
          /\ raw[i].election_district = raw[j].election_district
          /\ raw[k].election_district # raw[j].election_district
          /\ raw[i].vote_count # raw[j].vote_count
    /\ Len(Rows(_df_candidate)) = 2
    /\ \E n \in DOMAIN Rows(_df_candidate) : Rows(_df_candidate)[n].vote_count = 1241

\* the raw row of the example
ExampleRow ==
    [assembly_district |-> <<"6", "5">>, election_district |-> <<"1", "2">>,
     county |-> "New York", note |-> IN_PLAY, vote_choice |-> MamdaniLabel,
     vote_count |-> <<"1", ",", "2", "3", "4">>]

\* the example row is in the file and no other row of its district names
\* its candidate
ExampleAlone ==
    /\ \E i \in DOMAIN raw : raw[i] = ExampleRow
    /\ Len(SameCandidateRows(ExampleRow)) = 1

\* C9: the example row of the mayoral contest yields the record (65012,
\* 'New York', 'Zohran Mamdani', 1234); every candidate record carries
\* ElectDist = AD * 1000 + ED and the canonical name of the roster entry
\* its rows name, and every ballot-type record keeps its raw label.
C9_ExampleRecord ==
    outcome = "returned" =>
        /\ (election_type = "mayor" /\ ExampleAlone) =>
              \E n \in DOMAIN Rows(_df_candidate) :
                 LET c == Rows(_df_candidate)[n]
                 IN  /\ c.ElectDist = 65012
                     /\ c.county = "New York"
                     /\ c.vote_choice = "Zohran Mamdani"
                     /\ c.vote_count = 1234
        /\ \A n \in DOMAIN Rows(_df_candidate) :
              LET c == Rows(_df_candidate)[n]
              IN  /\ c.ElectDist = c.assembly_district * 1000 + c.election_district
                  /\ \E i \in DOMAIN raw :
                        /\ raw[i].note = IN_PLAY
                        /\ BaseLabel(raw[i].vote_choice) \in Roster(election_type)
                        /\ c.vote_choice =
                             CanonicalName(election_type, BaseLabel(raw[i].vote_choice))
        /\ \A n \in DOMAIN Rows(_df_ballot_type) :
              LET b == Rows(_df_ballot_type)[n]
              IN  /\ b.ElectDist = b.assembly_district * 1000 + b.election_district
                  /\ \E i \in DOMAIN raw :
                        /\ raw[i].note = IN_PLAY
                        /\ BaseLabel(raw[i].vote_choice) = b.vote_choice

\* the example row loaded for the mayoral contest beside a ballot-type row
C9_Witness ==
    /\ outcome = "returned"
    /\ election_type = "mayor"
    /\ ExampleAlone
    /\ Len(Rows(_df_candidate)) >= 1
    /\ Len(Rows(_df_ballot_type)) >= 1

CandidateChoices == {Rows(_df_candidate)[n].vote_choice : n \in DOMAIN Rows(_df_candidate)}

\* C10 as stated: after a load the vote_choice values of the candidate table
\* are exactly the contest's roster in canonical names.
C10_ExactlyRoster ==
    outcome = "returned" => CandidateChoices = CanonicalRoster(election_type)

\* C10 amended: after a load every vote_choice value of the candidate table
\* is a canonical name of the contest's roster.
C10_WithinRoster ==
    outcome = "returned" => CandidateChoices \subseteq CanonicalRoster(election_type)

\* a load that put candidate rows in the table and kept other rows out
C10_Witness ==
    /\ outcome = "returned"
    /\ CandidateChoices # {}
    /\ Len(Rows(_df_ballot_type)) >= 1

\* the pairs of records of the two keyed tables
KeyedTables == {Rows(_df_candidate), Rows(_df_ballot_type)}

SameDistrict(a, b) ==
    a.assembly_district = b.assembly_district /\ a.election_district = b.election_district

\* C7 as stated: in the candidate and the ballot-type table two records of
\* different (assembly_district, election_district) never share an ElectDist.
C7_KeyUnique ==
    outcome = "returned" =>
        \A T \in KeyedTables : \A a, b \in Range(T) :
            ~SameDistrict(a, b) => a.ElectDist # b.ElectDist

\* C7 amended: two records of different districts whose election_district
\* numbers are both below 1000 never share an ElectDist.
C7_KeyUniqueBelow1000 ==
    outcome = "returned" =>
        \A T \in KeyedTables : \A a, b \in Range(T) :
            (a.election_district \in 1..999 /\ b.election_district \in 1..999
               /\ ~SameDistrict(a, b))
            => a.ElectDist # b.ElectDist

\* two candidate records of different districts below 1000, and two
\* ballot-type records of different districts
C7_Witness ==
    /\ outcome = "returned"
    /\ \E a, b \in Range(Rows(_df_candidate)) :
          /\ a.election_district \in 1..999 /\ b.election_district \in 1..999
          /\ a.assembly_district # b.assembly_district
          /\ a.election_district # b.election_district
          /\ a.ElectDist # b.ElectDist

----------------------------------------------------------------------------
(* Properties of the bivariate classification *)

Called == ~call.isNone

\* the two parts of a label
MPartHigh(label) == label \in {"High M / High T", "High M / Low T"}

TPartHigh(label) == label \in {"High M / High T", "Low M / High T"}

\* C2: every call of assign_bivariate_category, whatever the two
\* percentages (missing or not) and the threshold, returns a label of the
\* fixed category set.
C2_LabelOfFixedSet ==
    Called => call.result \in Range(BIVARIATE_CATEGORY_ORDER)

\* a call with a missing percentage and one with none, at other thresholds
\* than the default
C2_Witness ==
    /\ Called
    /\ call.threshold # DefaultThreshold
    /\ IsNa(call.mamdani_pct)
    /\ call.trump_pct = 10000
    /\ call.result \in Range(BIVARIATE_CATEGORY_ORDER)

\* C5: for non-missing percentages m, t and cut-point c, the M part of the
\* label is High iff m > c and the T part is High iff t > c; a value equal
\* to the cut-point is Low.
C5_AxesSplitIndependently ==
    (Called /\ ~IsNa(call.mamdani_pct) /\ ~IsNa(call.trump_pct)) =>
        /\ MPartHigh(call.result) <=> call.mamdani_pct > call.threshold
        /\ TPartHigh(call.result) <=> call.trump_pct > call.threshold
        /\ call.result \in Range(BIVARIATE_CATEGORY_ORDER)

\* a call with one percentage on the cut-point and the other above it
C5_Witness ==
    /\ Called
    /\ call.mamdani_pct = call.threshold
    /\ call.trump_pct > call.threshold
    /\ call.result = "Low M / High T"

\* the level of a percentage on an axis of two cut-points
LevelAt(pct, cuts) ==
    IF pct >= cuts[2] THEN "High" ELSE IF pct >= cuts[1] THEN "Mid" ELSE "Low"

\* the cut-points of the 9-category scheme: Mamdani 35/55, Trump 20/40
MamdaniCuts == <<3500, 5500>>

TrumpCuts == <<2000, 4000>>

HasData(row) == ~IsNa(row.zohran_mamdani_pct) /\ ~IsNa(row.trump_pct)

\* C3: the borough classification gives a district of Mamdani share 60% and
\* Trump share 45% the category "High M / High T".
C3_ExampleHighHigh ==
    Categorized(gdf) =>
        \A i \in DOMAIN gdf :
            (gdf[i].zohran_mamdani_pct = 6000 /\ gdf[i].trump_pct = 4500)
            => gdf[i].bivariate_category = "High M / High T"

\* C4: the label is one of the nine cells of the 3x3 cross-product of the
\* two levels: districts whose level differs on the Mamdani axis (cuts
\* 35/55) or on the Trump axis (cuts 20/40) get different labels.
C4_NineCells ==
    Categorized(gdf) =>
        \A i, j \in DOMAIN gdf :
            (/\ HasData(gdf[i]) /\ HasData(gdf[j])
             /\ \/ LevelAt(gdf[i].zohran_mamdani_pct, MamdaniCuts)
                     # LevelAt(gdf[j].zohran_mamdani_pct, MamdaniCuts)
                \/ LevelAt(gdf[i].trump_pct, TrumpCuts)
                     # LevelAt(gdf[j].trump_pct, TrumpCuts))
            => gdf[i].bivariate_category # gdf[j].bivariate_category

\* C6: every district of the joined table lacking a Mamdani share or a
\* Trump share is classified 'Low M / Low T', whatever its other share is.
C6_MissingIsLowLow ==
    Categorized(gdf) =>
        \A i \in DOMAIN gdf :
            (IsNa(gdf[i].zohran_mamdani_pct) \/ IsNa(gdf[i].trump_pct))
            => gdf[i].bivariate_category = "Low M / Low T"

\* a classified table with a district lacking only its Trump share and one
\* lacking only its Mamdani share, the other share being high
C6_Witness ==
    /\ Categorized(gdf)
    /\ \E i, j \in DOMAIN gdf :
          /\ gdf[i].zohran_mamdani_pct = 6000 /\ IsNa(gdf[i].trump_pct)
          /\ IsNa(gdf[j].zohran_mamdani_pct) /\ gdf[j].trump_pct = 6000
          /\ gdf[i].bivariate_category = "Low M / Low T"
          /\ gdf[j].bivariate_category = "Low M / Low T"

----------------------------------------------------------------------------
(* Format errors: notes of merged districts and numeric cells *)

\* a row of AD 10, ED 05 in Kings for the mayoral candidate
KingsRow(note, count) ==
    [assembly_district |-> <<"1", "0">>, election_district |-> <<"0", "5">>,
     county |-> "Kings", note |-> note, vote_choice |-> MamdaniLabel,
     vote_count |-> count]

\* notes of rows that are not in play
NoteEdAd == <<"E", "D", " ", "0", "7", " ", "A", "D", " ", "0", "3">>

NoteSlash == <<"0", "7", "/", "0", "3">>

NoteFourChars == <<"7", "/", "0", "3">>

NoteThreeChars == <<"7", "0", "3">>

NoteLetter == <<"0", "x", "/", "0", "3">>

NoteBlank == <<" ", "7", "/", "0", "3">>

\* the rows of the format specification: merged rows with well and badly
\* formed notes, an in-play row, and rows with an unparsable number
FormatRows ==
    {KingsRow(n, <<"7">>) :
        n \in {NoteEdAd, NoteSlash, NoteFourChars, NoteThreeChars, NoteLetter,
               NoteBlank, IN_PLAY}}
    \cup
    {KingsRow(IN_PLAY, <<"1", ",", "2", "x">>),
     [KingsRow(IN_PLAY, <<"7">>) EXCEPT !.assembly_district = <<"1", "O">>],
     [KingsRow(NoteSlash, <<"7">>) EXCEPT !.election_district = <<>>]}

InitFormat == InitCleaner(FormatRows)

SpecFormat == InitFormat /\ [][Next]_vars

\* an operation on the cleaner has ended
Attempted == outcome # "constructed"

MergedRecord(sad, sed, rad, red) ==
    \E n \in DOMAIN Rows(_merged_districts) :
        LET m == Rows(_merged_districts)[n]
        IN  /\ m.source_ad = sad /\ m.source_ed = sed
            /\ m.reported_ad = rad /\ m.reported_ed = red

\* C11 as stated: a file with the row (AD 10, ED 5, Kings) whose note ends
\* in 'ED 07 AD 03' yields, once loaded, the merged-district record
\* (source_ad 10, source_ed 5, reported_ad 3, reported_ed 7).
C11_NoteEdAdRecord ==
    (Attempted /\ (\E i \in DOMAIN raw : raw[i] = KingsRow(NoteEdAd, <<"7">>))
       /\ \A i \in DOMAIN raw : raw[i] \in {KingsRow(NoteEdAd, <<"7">>),
                                            KingsRow(IN_PLAY, <<"7">>)})
    => outcome = "returned" /\ MergedRecord(10, 5, 3, 7)

\* C11 amended: the row whose note ends in '07/03' yields the record
\* (10, 5, 3, 7); a file with a row whose note ends in 'ED 07 AD 03' is not
\* loaded, the characters at offsets -5..-3 being 'AD'.
C11_NoteSlashRecord ==
    /\ (Attempted /\ (\E i \in DOMAIN raw : raw[i] = KingsRow(NoteSlash, <<"7">>))
          /\ \A i \in DOMAIN raw : raw[i] \in {KingsRow(NoteSlash, <<"7">>),
                                               KingsRow(IN_PLAY, <<"7">>)})
       => outcome = "returned" /\ MergedRecord(10, 5, 3, 7)
    /\ (\E i \in DOMAIN raw : raw[i] = KingsRow(NoteEdAd, <<"7">>))
       => outcome # "returned" /\ _merged_districts = None

\* the '07/03' row loaded beside an in-play row
C11_Witness ==
    /\ outcome = "returned"
    /\ \E i, j \in DOMAIN raw :
          raw[i] = KingsRow(NoteSlash, <<"7">>) /\ raw[j] = KingsRow(IN_PLAY, <<"7">>)
    /\ MergedRecord(10, 5, 3, 7)
    /\ Len(Rows(_merged_districts)) = 1

\* both two-character fields of a note are two digits
TwoDigitFields(note) ==
    /\ Len(note) >= 5
    /\ \A k \in {Len(note) - 4, Len(note) - 3, Len(note) - 1, Len(note)} :
          IsDigit(note[k])

\* C12 as stated: a load returns only if every note of a row that is not in
\* play has at least 5 characters and digits in both two-character fields,
\* and then reported_ed and reported_ad are the base-10 values of these.
C12_NoteFormatEnforced ==
    outcome = "returned" =>
        \A i \in DOMAIN raw :
            raw[i].note # IN_PLAY =>
                /\ TwoDigitFields(raw[i].note)
                /\ MergedRecord(RawAD(raw[i]), RawED(raw[i]),
                      DigitsValue(SubSeq(raw[i].note, Len(raw[i].note) - 1, Len(raw[i].note))),
                      DigitsValue(SubSeq(raw[i].note, Len(raw[i].note) - 4, Len(raw[i].note) - 3)))

\* a raw row with a cell that is no integer
BadNumber(r) ==
    \/ ~AsTypeInt(r.assembly_district).ok
    \/ ~AsTypeInt(r.election_district).ok
    \/ ~AsTypeInt(RemoveCommas(r.vote_count)).ok

\* C15: with a row whose assembly_district, election_district or vote_count
\* does not parse, no operation on the cleaner returns a table and its three
\* caches stay unset.
C15_BadNumberFailsLoad ==
    (\E i \in DOMAIN raw : BadNumber(raw[i])) =>
        /\ outcome # "returned"
        /\ _df_candidate = None /\ _df_ballot_type = None /\ _merged_districts = None

\* a failed load of a file with a good in-play row before a bad one
C15_Witness ==
    /\ outcome = "ValueError"
    /\ Len(raw) >= 2
    /\ raw[1] = KingsRow(IN_PLAY, <<"7">>)
    /\ \E i \in DOMAIN raw : ~AsTypeInt(RemoveCommas(raw[i].vote_count)).ok
    /\ \A i \in DOMAIN raw : raw[i].note = IN_PLAY
    /\ _df_candidate = None

----------------------------------------------------------------------------
(* Labels that are neither a ballot type nor a roster entry *)

WriteInLabel == <<"Write-In">>

\* the canonical short name of the name map, as a raw label
ShortMamdaniLabel == <<"Zohran Mamdani">>

ShortTrumpLabel == <<"Trump">>

\* in-play rows of two election districts with a roster entry, a ballot
\* type and two labels the mayoral configuration does not list
DropRows ==
    {[assembly_district |-> <<"6", "5">>, election_district |-> ed,
      county |-> "New York", note |-> IN_PLAY, vote_choice |-> c[1],
      vote_count |-> c[2]] :
        ed \in {<<"1", "2">>, <<"1", "3">>},
        c \in {<<MamdaniLabel, <<"7">> >>,
               <<WriteInLabel, <<"1", ",", "2", "3", "4">> >>,
               <<ShortMamdaniLabel, <<"7">> >>,
               <<PublicCounterLabel, <<"7">> >>}}
    \cup
    {[assembly_district |-> <<"6", "5">>, election_district |-> <<"1", "2">>,
      county |-> "New York", note |-> IN_PLAY, vote_choice |-> ShortTrumpLabel,
      vote_count |-> <<"7">>]}

InitDrop == InitCleaner(DropRows)

SpecDrop == InitDrop /\ [][Next]_vars

\* an in-play row whose label is in neither configured set
Unlisted(t, r) == r.note = IN_PLAY /\ ~Recognized(t, r)

\* the file without the rows of unlisted labels
WithoutUnlisted(t, rows) == SelectSeq(rows, LAMBDA r : ~Unlisted(t, r))

\* C13: a load of a file with in-play rows of unlisted labels succeeds, and
\* the candidate and ballot-type tables are those of the file without
\* these rows: no record of theirs, every other record unchanged.
C13_UnlistedDropped ==
    Attempted =>
        /\ outcome = "returned"
        /\ Rows(_df_candidate) =
              LoadTables(election_type, WithoutUnlisted(election_type, raw)).candidate
        /\ Rows(_df_ballot_type) =
              LoadTables(election_type, WithoutUnlisted(election_type, raw)).ballot_type
        /\ \A n \in DOMAIN Rows(_df_candidate) :
              Rows(_df_candidate)[n].vote_choice \in CanonicalRoster(election_type)
        /\ \A n \in DOMAIN Rows(_df_ballot_type) :
              Rows(_df_ballot_type)[n].vote_choice \in BallotTypes(election_type)

\* a mayoral load of a district with an unlisted label beside a candidate
\* and a ballot type
C13_Witness ==
    /\ outcome = "returned"
    /\ election_type = "mayor"
    /\ \E i, j, k \in DOMAIN raw :
          /\ raw[i].vote_choice = WriteInLabel
          /\ raw[j].vote_choice = MamdaniLabel
          /\ raw[k].vote_choice = PublicCounterLabel
          /\ raw[i].election_district = raw[j].election_district
    /\ Len(Rows(_df_candidate)) = 1
    /\ Rows(_df_candidate)[1].vote_count = 7
    /\ Len(Rows(_df_ballot_type)) = 1

----------------------------------------------------------------------------
(* The pivoted per-district table *)

MAYORAL_CANDIDATES == <<"Zohran Mamdani", "Andrew Cuomo", "Curtis Sliwa">>

\* the candidates that get a percentage column in load_and_merge_data
PctCandidates(t) ==
    IF t = "mayor" THEN MAYORAL_CANDIDATES ELSE <<"Trump", "Harris">>

\* columns='vote_choice': one column per label of the candidate table
PivotColumns(rows) == {rows[n].vote_choice : n \in DOMAIN rows}

\* index='ElectDist'
PivotIndex(rows) == {rows[n].ElectDist : n \in DOMAIN rows}

RECURSIVE SortInts(_)
SortInts(S) ==
    IF S = {} THEN <<>>
    ELSE LET least == CHOOSE k \in S : \A o \in S : k <= o
         IN  <<least>> \o SortInts(S \ {least})

\* aggfunc='sum' and fillna(0): the votes of one district for one label,
\* 0 for a combination without a record
Cell(rows, d, c) ==
    SumVoteCount(SelectSeq(rows, LAMBDA r : r.ElectDist = d /\ r.vote_choice = c))

RECURSIVE SumOver(_, _)
SumOver(f, S) ==
    IF S = {} THEN 0
    ELSE LET c == CHOOSE x \in S : TRUE
         IN  f[c] + SumOver(f, S \ {c})

\* the row sum taken with ElectDist already a column of the table
RowTotalAfterReset(votes, d) == SumOver(votes, DOMAIN votes) + d

\* sum(axis=1) over the columns of the pivot, taken before any other column
\* is added and before reset_index
RowTotal(votes, d) == SumOver(votes, DOMAIN votes)

\* round(2) of a quotient, in hundredths: to the nearest, a tie to the even
RoundHalfEven(n, d) ==
    LET q == n \div d
        r == n % d
    IN  IF 2 * r < d THEN q
        ELSE IF 2 * r > d THEN q + 1
        ELSE IF q % 2 = 0 THEN q ELSE q + 1

\* a candidate's votes against the votes of the others
ShareOfOthers(votes, total) ==
    IF total - votes = 0 THEN NaN ELSE RoundHalfEven(votes * 10000, total - votes)

\* (column / total * 100).round(2) for counts that are not negative, in
\* hundredths of a percent; 0 / 0 is NaN
Share(votes, total) ==
    IF total = 0 THEN NaN ELSE RoundHalfEven(votes * 10000, total)

\* the pivot of a candidate table with its total and percentage columns
PivotTable(t, rows) ==
    LET index == SortInts(PivotIndex(rows))
        cols == PivotColumns(rows)
    IN  [n \in DOMAIN index |->
            LET d == index[n]
                votes == [c \in cols |-> Cell(rows, d, c)]
                total == RowTotal(votes, d)
            IN  [ElectDist |-> d,
                 votes |-> votes,
                 total |-> total,
                 pct |-> [c \in Range(PctCandidates(t)) |->
                             IF c \in cols THEN Share(votes[c], total) ELSE 0]]]

\* load_and_merge_data after load_and_clean has returned the candidate table
pivot_table ==
    /\ ~_df_candidate.isNone
    /\ pivot = None
    /\ pivot' = Df(PivotTable(election_type, _df_candidate.rows))
    /\ UNCHANGED <<election_type, raw, _df_candidate, _df_ballot_type,
                   _merged_districts, outcome, gdf, call, census, run>>

TrumpLabel == <<"Donald J. Trump / JD Vance">>

\* rows of three election districts: counts of 0, a candidate without a
\* percentage column, a ballot type, a merged district and a district whose
\* note does not parse
PivotRows ==
    {[assembly_district |-> <<"6", "5">>, election_district |-> c[1],
      county |-> "New York", note |-> c[2], vote_choice |-> c[3],
      vote_count |-> c[4]] :
        c \in {<<<<"1", "2">>, IN_PLAY, MamdaniLabel, <<"2">> >>,
               <<<<"1", "2">>, IN_PLAY, MamdaniLabel, <<"0">> >>,
               <<<<"1", "2">>, IN_PLAY, ScatteredLabel, <<"1">> >>,
               <<<<"1", "2">>, IN_PLAY, ScatteredLabel, <<"0">> >>,
               <<<<"1", "2">>, IN_PLAY, TrumpLabel, <<"7">> >>,
               <<<<"1", "2">>, IN_PLAY, PublicCounterLabel, <<"7">> >>,
               <<<<"1", "3">>, IN_PLAY, MamdaniLabel, <<"0">> >>,
               <<<<"1", "3">>, IN_PLAY, ScatteredLabel, <<"1">> >>,
               <<<<"1", "4">>, MergedNote, MamdaniLabel, <<"7">> >>,
               <<<<"1", "4">>, NoteLetter, MamdaniLabel, <<"7">> >>}}

InitPivot == InitCleaner(PivotRows)

PivotNext == CleanerNext \/ pivot_table

SpecPivot == InitPivot /\ [][PivotNext]_vars

\* the candidate table of the in-play rows alone
InPlayCandidates == LoadTables(election_type, InPlay(raw)).candidate

RecordedVotes(d, c) ==
    TableVotes(SelectSeq(Rows(_df_candidate),
                         LAMBDA r : r.ElectDist = d /\ r.vote_choice = c))

\* the votes the candidate table records for a district
DistrictVotes(d) ==
    TableVotes(SelectSeq(Rows(_df_candidate), LAMBDA r : r.ElectDist = d))

\* C17: in the pivoted table the total of each row is exactly the votes of
\* its per-candidate columns, a candidate without a record for the district
\* counting as 0, and nothing else.
C17_TotalIsRowSum ==
    \A n \in DOMAIN Rows(pivot) :
        LET row == Rows(pivot)[n]
        IN  /\ DOMAIN row.votes =
                  {Rows(_df_candidate)[k].vote_choice : k \in DOMAIN Rows(_df_candidate)}
            /\ \A c \in DOMAIN row.votes : row.votes[c] = RecordedVotes(row.ElectDist, c)
            /\ row.total = DistrictVotes(row.ElectDist)

\* two districts and two candidates, one candidate without a record in one
\* of the districts
C17_Witness ==
    /\ Len(Rows(pivot)) = 2
    /\ \E n \in DOMAIN Rows(pivot) :
          LET row == Rows(pivot)[n]
          IN  /\ Cardinality(DOMAIN row.votes) = 2
              /\ row.total > 0
              /\ \E c \in DOMAIN row.votes :
                    /\ row.votes[c] = 0
                    /\ \A k \in DOMAIN Rows(_df_candidate) :
                          ~(/\ Rows(_df_candidate)[k].ElectDist = row.ElectDist
                            /\ Rows(_df_candidate)[k].vote_choice = c)

\* C18: for counts that are not negative every percentage of the pivoted
\* table is the no-data value or lies between 0 and 100.
C18_PctInRange ==
    (\A k \in DOMAIN Rows(_df_candidate) : Rows(_df_candidate)[k].vote_count >= 0)
    => \A n \in DOMAIN Rows(pivot) :
          \A c \in DOMAIN Rows(pivot)[n].pct :
             \/ IsNa(Rows(pivot)[n].pct[c])
             \/ Rows(pivot)[n].pct[c] \in 0..10000

\* two of a district's three votes for a candidate: 66.67 after rounding
C18_Witness ==
    \E n \in DOMAIN Rows(pivot) :
        /\ Rows(pivot)[n].total = 3
        /\ Rows(pivot)[n].pct["Zohran Mamdani"] = 6667

\* C19: in a row whose total is 0 every percentage is the no-data value.
C19_ZeroTotalIsNoData ==
    \A n \in DOMAIN Rows(pivot) :
        Rows(pivot)[n].total = 0 =>
            \A c \in DOMAIN Rows(pivot)[n].pct : IsNa(Rows(pivot)[n].pct[c])

----------------------------------------------------------------------------
(* CensusDataCleaner: the tract table *)

\* a cell of the JSON response: null or a string
JsonNull == [isNull |-> TRUE]

JsonStr(chars) == [isNull |-> FALSE, chars |-> chars]

\* a float64 cell of a frame: NaN or a number
Missing == [isNa |-> TRUE]

Number(v) == [isNa |-> FALSE, val |-> v]

\* pd.to_numeric(errors='coerce') on one cell that is null, an integer
\* literal or no number at all
ToNumeric(cell) ==
    IF cell.isNull THEN Missing
    ELSE LET c == AsTypeInt(cell.chars)
         IN  IF c.ok THEN Number(c.val) ELSE Missing

\* the total-population and median-income cells of the responses
TotalPopCells ==
    {JsonStr(<<"0">>), JsonStr(<<"1", "2">>), JsonStr(<<"-", "6">>),
     JsonStr(<<"x">>), JsonNull}

IncomeCells == {JsonStr(<<"3">>), JsonNull}

\* the responses of at most MaxUnits tracts, the tracts numbered in order
Responses ==
    UNION {[1..n -> TotalPopCells \X IncomeCells] : n \in 0..MaxUnits}

\* lines 144-157: the frame of a response, its numeric columns converted
FetchedFrame(data) ==
    [i \in DOMAIN data |->
        [tract |-> i,
         B03002_001E |-> ToNumeric(data[i][1]),
         B19013_001E |-> ToNumeric(data[i][2])]]

\* units of a total population of 0 kept
NotNegativePopulation(u) == ~u.B03002_001E.isNa /\ u.B03002_001E.val >= 0

\* lines 176-177: notna() and > 0 on the total population
HasPopulation(u) == ~u.B03002_001E.isNa /\ u.B03002_001E.val > 0

\* line 181: fillna(0) on a numeric cell
FillNa(x) == IF x.isNa THEN Number(0) ELSE x

\* _clean_data, lines 173-183
CleanData(df) ==
    LET kept == SelectSeq(df, HasPopulation)
    IN  [n \in DOMAIN kept |->
            [c \in DOMAIN kept[n] |->
                IF c \in {"tract", "county"} THEN kept[n][c] ELSE FillNa(kept[n][c])]]

\* load_and_clean, line 89: the response is fetched and converted
_fetch_all_nyc_data ==
    /\ ~census.isNone
    /\ census.stage = "constructed"
    /\ census' = [census EXCEPT !.stage = "fetched",
                                !.fetched = FetchedFrame(census.data)]
    /\ UNCHANGED <<election_type, raw, _df_candidate, _df_ballot_type,
                   _merged_districts, outcome, gdf, call, pivot, run>>

\* load_and_clean, lines 91-96: an empty frame is refused, any other cleaned
_clean_data ==
    /\ ~census.isNone
    /\ census.stage = "fetched"
    /\ census' = IF census.fetched = <<>>
                 THEN [census EXCEPT !.stage = "ValueError"]
                 ELSE [census EXCEPT !.stage = "cleaned",
                                     !.df = CleanData(census.fetched)]
    /\ UNCHANGED <<election_type, raw, _df_candidate, _df_ballot_type,
                   _merged_districts, outcome, gdf, call, pivot, run>>

\* a cleaner constructed with a credential, the responses of the API ahead
InitCensus ==
    /\ election_type = "mayor"
    /\ raw = <<>>
    /\ _df_candidate = None
    /\ _df_ballot_type = None
    /\ _merged_districts = None
    /\ outcome = "constructed"
    /\ gdf = <<>>
    /\ call = None
    /\ pivot = None
    /\ run = None
    /\ \E data \in Responses :
          census = [isNone |-> FALSE, stage |-> "constructed", data |-> data,
                    fetched |-> <<>>, df |-> <<>>]

CensusNext == _fetch_all_nyc_data \/ _clean_data

SpecCensus == InitCensus /\ [][CensusNext]_vars

\* the tract table before and after _clean_data
CensusInput == IF census.isNone THEN <<>> ELSE census.fetched

CensusOutput == IF census.isNone THEN <<>> ELSE census.df

Cleaned == ~census.isNone /\ census.stage = "cleaned"

\* C20: after _clean_data every remaining unit has a total population above
\* 0, and the remaining units are exactly the input units with a total
\* population above 0, whatever their other fields are.
C20_OnlyPopulatedUnits ==
    Cleaned =>
        /\ \A n \in DOMAIN CensusOutput :
              /\ ~CensusOutput[n].B03002_001E.isNa
              /\ CensusOutput[n].B03002_001E.val > 0
        /\ {CensusOutput[n].tract : n \in DOMAIN CensusOutput} =
              {CensusInput[i].tract : i \in
                  {j \in DOMAIN CensusInput :
                      /\ ~CensusInput[j].B03002_001E.isNa
                      /\ CensusInput[j].B03002_001E.val > 0}}
        /\ \A n \in DOMAIN CensusOutput :
              CensusOutput[n].B03002_001E =
                  CensusInput[CensusOutput[n].tract].B03002_001E

\* a cleaned response of a tract of population 0 with an income, a tract
\* without a population and a populated tract
C20_Witness ==
    /\ Cleaned
    /\ \E i, j, k \in DOMAIN CensusInput :
          /\ CensusInput[i].B03002_001E = Number(0)
          /\ CensusInput[i].B19013_001E = Number(3)
          /\ CensusInput[j].B03002_001E = Missing
          /\ CensusInput[k].B03002_001E = Number(12)
    /\ Len(CensusOutput) = 1

----------------------------------------------------------------------------
(* Runs of the constructors and of load_election_and_demographic_data *)

MAYOR_DATA_PATH == "data/citywide_mayor_citywide.csv"

PRESIDENT_DATA_PATH == "data/citywide_president_citywide.csv"

SHAPEFILE_PATH == "data/nyc_districts/nyed.shp"

\* the counties in the order of the dictionary
NYC_COUNTIES == <<"New York", "Kings", "Queens", "Bronx", "Richmond">>

\* an optional string: None, or Str(s)
Str(s) == [isNone |-> FALSE, str |-> s]

\* the truth value Python gives an optional string
Truthy(x) == ~x.isNone /\ x.str # ""

\* a or b
PyOr(a, b) == IF Truthy(a) THEN a ELSE b

\* ElectionDataCleaner(path, election_type=t) followed by load_and_clean()
CleanerSteps(path, t) ==
    <<[op |-> "ElectionDataCleaner", election_type |-> t],
      [op |-> "read_csv", path |-> path]>>

\* CensusDataCleaner(api_key) followed by load_and_clean()
CensusSteps(api_key) ==
    <<[op |-> "CensusDataCleaner", api_key |-> api_key]>>
    \o [i \in DOMAIN NYC_COUNTIES |-> [op |-> "requests.get", county |-> NYC_COUNTIES[i]]]
    \o <<[op |-> "df.empty"]>>

\* load_election_and_demographic_data, lines 27-80
DemographicSteps ==
    CleanerSteps(MAYOR_DATA_PATH, "mayor")
    \o CleanerSteps(PRESIDENT_DATA_PATH, "president")
    \o <<[op |-> "read_file", path |-> SHAPEFILE_PATH], [op |-> "load_dotenv"]>>
    \o CensusSteps(None)

\* a run: the steps ahead, CENSUS_API_KEY in the environment and in
\* .env.local, the data read so far, the error that ended the run
Run(todo, environ, dotenv) ==
    [isNone |-> FALSE, todo |-> todo, environ |-> environ, dotenv |-> dotenv,
     touched |-> {}, error |-> "none"]

Running == ~run.isNone /\ run.error = "none" /\ run.todo # <<>>

NextOp == Head(run.todo).op

Frame == UNCHANGED <<election_type, raw, _df_candidate, _df_ballot_type,
                     _merged_districts, outcome, gdf, call, pivot, census>>

\* data_cleaner.py lines 23-39
ElectionDataCleaner__init__ ==
    /\ Running /\ NextOp = "ElectionDataCleaner"
    /\ run' = IF Head(run.todo).election_type \in DOMAIN ELECTION_CONFIGS
              THEN [run EXCEPT !.todo = Tail(run.todo)]
              ELSE [run EXCEPT !.error = "unknown election type"]
    /\ Frame

\* data_cleaner.py lines 49-51, inside load_and_clean
read_csv ==
    /\ Running /\ NextOp = "read_csv"
    /\ run' = [run EXCEPT !.todo = Tail(run.todo),
                          !.touched = run.touched \cup {Head(run.todo).path}]
    /\ Frame

\* create_demographic_maps.py line 65
read_file ==
    /\ Running /\ NextOp = "read_file"
    /\ run' = [run EXCEPT !.todo = Tail(run.todo),
                          !.touched = run.touched \cup {Head(run.todo).path}]
    /\ Frame

\* create_demographic_maps.py line 78: a variable of the file is set unless
\* the environment has it already
load_dotenv ==
    /\ Running /\ NextOp = "load_dotenv"
    /\ run' = [run EXCEPT !.todo = Tail(run.todo),
                          !.environ = IF run.environ.isNone THEN run.dotenv
                                      ELSE run.environ]
    /\ Frame

\* census_data_cleaner.py lines 69-80
CensusDataCleaner__init__ ==
    /\ Running /\ NextOp = "CensusDataCleaner"
    /\ run' = IF Truthy(PyOr(Head(run.todo).api_key, run.environ))
              THEN [run EXCEPT !.todo = Tail(run.todo)]
              ELSE [run EXCEPT !.error = "api key not found"]
    /\ Frame

\* census_data_cleaner.py lines 138-161: a response is read, or the request
\* raises and the county is skipped
requests_get ==
    /\ Running /\ NextOp = "requests.get"
    /\ \E answered \in BOOLEAN :
          run' = [run EXCEPT !.todo = Tail(run.todo),
                             !.touched = IF answered
                                         THEN run.touched \cup {Head(run.todo).county}
                                         ELSE run.touched]
    /\ Frame

\* census_data_cleaner.py lines 91-93
df_empty ==
    /\ Running /\ NextOp = "df.empty"
    /\ run' = IF run.touched \cap Range(NYC_COUNTIES) = {}
              THEN [run EXCEPT !.error = "no census data"]
              ELSE [run EXCEPT !.todo = Tail(run.todo)]
    /\ Frame

\* the values of CENSUS_API_KEY and of the api_key argument
Credentials == {None, Str(""), Str("key")}

\* the election types callers pass
ElectionTypeArgs == {"mayor", "president", "council", "Mayor"}

InitRuns ==
    /\ election_type = "mayor"
    /\ raw = <<>>
    /\ _df_candidate = None
    /\ _df_ballot_type = None
    /\ _merged_districts = None
    /\ outcome = "constructed"
    /\ gdf = <<>>
    /\ call = None
    /\ pivot = None
    /\ census = None
    /\ run \in {Run(CleanerSteps(MAYOR_DATA_PATH, t), None, None) : t \in ElectionTypeArgs}
               \cup {Run(CensusSteps(k), e, None) : k \in Credentials, e \in Credentials}
               \cup {Run(DemographicSteps, e, d) : e \in Credentials, d \in Credentials}

RunsNext ==
    \/ ElectionDataCleaner__init__
    \/ read_csv
    \/ read_file
    \/ load_dotenv
    \/ CensusDataCleaner__init__
    \/ requests_get
    \/ df_empty

SpecRuns == InitRuns /\ [][RunsNext]_vars

\* the run has ended with a configuration error
ConfigurationError ==
    ~run.isNone /\ run.error \in {"unknown election type", "api key not found"}

\* C16: a run that ends with a configuration error (unknown election type,
\* missing Census credential) has read no tally file, no shapefile and no
\* HTTP response.
C16_ConfigErrorBeforeData == ConfigurationError => run.touched = {}

----------------------------------------------------------------------------
(* CensusDataCleaner: education and race percentages *)

\* a percentage count / denominator * 100 as an exact fraction with a
\* positive denominator
PctOf(count, den) ==
    IF den < 0 THEN [num |-> (0 - count) * 100, den |-> 0 - den]
    ELSE [num |-> count * 100, den |-> den]

\* the constant 0 assigned to a percentage column
PctZero == [num |-> 0, den |-> 1]

PctLess(a, b) == a.num * b.den < b.num * a.den

\* fillna(0).replace(0, 1) on the denominator column
Denominator(u, col) ==
    LET v == FillNa(u[col]).val
    IN  IF v = 0 THEN 1 ELSE v

\* (count / denominator * 100).fillna(0): the denominator is never 0 here,
\* so the quotient is never NaN
PctGuarded(count, den) == PctOf(count, den)

\* the sum of the columns of a list that the frame has, NaN counting as 0
SumColumns(u, cols) ==
    LET present == cols \cap DOMAIN u
    IN  SumOver([c \in present |-> FillNa(u[c]).val], present)

\* the percentage of one column, 0 when the frame lacks the column
ColumnPct(u, col, den) ==
    IF col \in DOMAIN u THEN PctGuarded(FillNa(u[col]).val, den) ELSE PctZero

LESS_THAN_HS_COLS ==
    {"B15003_002E", "B15003_003E", "B15003_004E", "B15003_005E",
     "B15003_006E", "B15003_007E", "B15003_008E", "B15003_009E"}

BACH_PLUS_COLS == {"B15003_022E", "B15003_023E", "B15003_024E", "B15003_025E"}

OTHER_COLS == {"B03002_005E", "B03002_007E", "B03002_008E", "B03002_009E"}

\* _process_education_data on one row, lines 197-231
ProcessEducation(u) ==
    LET total_25_plus == Denominator(u, "B15003_001E")
    IN  [pct_less_than_hs |-> PctGuarded(SumColumns(u, LESS_THAN_HS_COLS), total_25_plus),
         pct_hs_only |-> ColumnPct(u, "B15003_017E", total_25_plus),
         pct_some_college |-> ColumnPct(u, "B15003_018E", total_25_plus),
         pct_associates |-> ColumnPct(u, "B15003_020E", total_25_plus),
         pct_bachelors_plus |-> PctGuarded(SumColumns(u, BACH_PLUS_COLS), total_25_plus)]
    @@ u

RACE_COLS == <<"pct_white", "pct_black", "pct_asian", "pct_hispanic", "pct_other">>

\* the last of the columns that hold the maximum
IdxMaxLast(u, cols) ==
    cols[CHOOSE i \in DOMAIN cols :
            /\ \A j \in DOMAIN cols : ~PctLess(u[cols[i]], u[cols[j]])
            /\ \A j \in DOMAIN cols : j > i => PctLess(u[cols[j]], u[cols[i]])]

\* idxmax(axis=1): the first of the columns that hold the maximum
IdxMax(u, cols) ==
    cols[CHOOSE i \in DOMAIN cols :
            /\ \A j \in DOMAIN cols : ~PctLess(u[cols[i]], u[cols[j]])
            /\ \A j \in DOMAIN cols : j < i => PctLess(u[cols[j]], u[cols[i]])]

\* .str.replace('pct_', '') on the names of the race columns
WithoutPct(name) ==
    CASE name = "pct_white" -> "white"
      [] name = "pct_black" -> "black"
      [] name = "pct_asian" -> "asian"
      [] name = "pct_hispanic" -> "hispanic"
      [] name = "pct_other" -> "other"

\* _process_race_data on one row, lines 245-282
ProcessRace(u) ==
    LET total_pop == Denominator(u, "B03002_001E")
        shares == [pct_white |-> ColumnPct(u, "B03002_003E", total_pop),
                   pct_black |-> ColumnPct(u, "B03002_004E", total_pop),
                   pct_asian |-> ColumnPct(u, "B03002_006E", total_pop),
                   pct_hispanic |-> ColumnPct(u, "B03002_012E", total_pop),
                   pct_other |-> PctGuarded(SumColumns(u, OTHER_COLS), total_pop)]
    IN  [majority_race |-> WithoutPct(IdxMax(shares, RACE_COLS))] @@ shares @@ u

\* the columns _select_final_columns keeps, of those the model carries
OUTPUT_COLS ==
    {"county", "tract", "median_income", "pct_less_than_hs", "pct_hs_only",
     "pct_some_college", "pct_associates", "pct_bachelors_plus", "pct_white",
     "pct_black", "pct_asian", "pct_hispanic", "pct_other", "majority_race"}

\* _select_final_columns on one row, lines 296-311
SelectFinalColumns(u) ==
    LET named == [median_income |-> u["B19013_001E"]] @@ u
    IN  [c \in OUTPUT_COLS \cap DOMAIN named |-> named[c]]

\* line 281 on a frame without rows: idxmax gives an empty column whose
\* type, and with it the success of the .str accessor, depends on the
\* pandas release
ProcessedOutcomes(df) ==
    IF df = <<>> THEN {"returned", "AttributeError"} ELSE {"returned"}

\* a frame with an operation applied to each of its rows
EachRow(Op(_), df) == [n \in DOMAIN df |-> Op(df[n])]

CensusFrame == <<election_type, raw, _df_candidate, _df_ballot_type,
                 _merged_districts, outcome, gdf, call, pivot, run>>

\* load_and_clean, line 99
_process_education_data ==
    /\ ~census.isNone
    /\ census.stage = "cleaned"
    /\ census' = [census EXCEPT !.stage = "education",
                                !.df = EachRow(ProcessEducation, census.df)]
    /\ UNCHANGED CensusFrame

\* load_and_clean, line 102
_process_race_data ==
    /\ ~census.isNone
    /\ census.stage = "education"
    /\ \E o \in ProcessedOutcomes(census.df) :
          census' = IF o = "returned"
                    THEN [census EXCEPT !.stage = "race",
                                        !.df = EachRow(ProcessRace, census.df)]
                    ELSE [census EXCEPT !.stage = o]
    /\ UNCHANGED CensusFrame

\* load_and_clean, lines 105-108
_select_final_columns ==
    /\ ~census.isNone
    /\ census.stage = "race"
    /\ census' = [census EXCEPT !.stage = "returned",
                                !.df = EachRow(SelectFinalColumns, census.df)]
    /\ UNCHANGED CensusFrame

\* a tract of the converted response: every column 0 but those given
Tract(given) ==
    given @@
    [c \in {"B03002_001E", "B19013_001E", "B15003_001E", "B15003_017E",
            "B15003_018E", "B15003_020E", "B03002_003E", "B03002_004E",
            "B03002_006E", "B03002_012E"}
           \cup LESS_THAN_HS_COLS \cup BACH_PLUS_COLS \cup OTHER_COLS |-> Number(0)]

\* tracts of 12 residents (and one of none) whose population of 25 and over
\* is present, 0 or missing, with and without ties between the race counts
DemographicTracts ==
    {Tract([B03002_001E |-> Number(12), B15003_001E |-> Number(10),
            B15003_022E |-> Number(5), B15003_002E |-> Number(1),
            B03002_003E |-> Number(6), B03002_004E |-> Number(6)]),
     Tract([B03002_001E |-> Number(12), B15003_001E |-> Number(0),
            B15003_022E |-> Number(5)]),
     Tract([B03002_001E |-> Number(12), B15003_001E |-> Number(0)]),
     Tract([B03002_001E |-> Number(12), B15003_001E |-> Missing,
            B15003_017E |-> Number(2),
            B03002_004E |-> Number(3), B03002_006E |-> Number(7)]),
     Tract([B03002_001E |-> Number(12), B15003_001E |-> Number(10),
            B03002_012E |-> Number(5), B03002_007E |-> Number(2),
            B03002_008E |-> Number(3)]),
     Tract([B03002_001E |-> Number(12), B15003_001E |-> Number(10),
            B03002_003E |-> Missing, B03002_009E |-> Number(9)]),
     Tract([B03002_001E |-> Number(12), B15003_001E |-> Number(10),
            B03002_006E |-> Number(4), B03002_012E |-> Number(4)]),
     Tract([B03002_001E |-> Number(0), B15003_001E |-> Number(10),
            B03002_003E |-> Number(6)])}

\* the converted frames of at most MaxUnits tracts, the tracts numbered
DemographicFrames ==
    UNION {{[i \in 1..n |-> [tract |-> i] @@ f[i]] : f \in [1..n -> DemographicTracts]} :
              n \in 0..MaxUnits}

\* load_and_clean after _fetch_all_nyc_data has returned its frame
InitDemographics ==
    /\ election_type = "mayor"
    /\ raw = <<>>
    /\ _df_candidate = None
    /\ _df_ballot_type = None
    /\ _merged_districts = None
    /\ outcome = "constructed"
    /\ gdf = <<>>
    /\ call = None
    /\ pivot = None
    /\ run = None
    /\ \E frame \in DemographicFrames :
          census = [isNone |-> FALSE, stage |-> "fetched", data |-> <<>>,
                    fetched |-> frame, df |-> <<>>]

DemographicsNext ==
    \/ _clean_data
    \/ _process_education_data
    \/ _process_race_data
    \/ _select_final_columns

SpecDemographics == InitDemographics /\ [][DemographicsNext]_vars

\* the row of the fetched frame a row of the output comes from
InputOf(row) == CensusInput[row.tract]

Returned == ~census.isNone /\ census.stage = "returned"

\* a cell of the fetched frame that is 0 or missing
ZeroOrMissing(cell) == cell.isNa \/ cell.val = 0

EDUCATION_PCTS ==
    {"pct_less_than_hs", "pct_hs_only", "pct_some_college", "pct_associates",
     "pct_bachelors_plus"}

\* C21: a unit whose population of 25 and over is 0 or missing has every
\* education percentage exactly 0, and a unit whose total population is 0
\* or missing has every race share exactly 0, whatever its counts are.
C21_ZeroDenominatorGivesZero ==
    Returned =>
        \A n \in DOMAIN CensusOutput :
            /\ ZeroOrMissing(InputOf(CensusOutput[n])["B15003_001E"]) =>
                  \A c \in EDUCATION_PCTS : CensusOutput[n][c].num = 0
            /\ ZeroOrMissing(InputOf(CensusOutput[n])["B03002_001E"]) =>
                  \A i \in DOMAIN RACE_COLS : CensusOutput[n][RACE_COLS[i]].num = 0

\* the count behind a race share in the fetched frame
RaceCount(u, col) ==
    LET count(c) == IF u[c].isNa THEN 0 ELSE u[c].val
    IN  CASE col = "white" -> count("B03002_003E")
          [] col = "black" -> count("B03002_004E")
          [] col = "asian" -> count("B03002_006E")
          [] col = "hispanic" -> count("B03002_012E")
          [] col = "other" -> count("B03002_005E") + count("B03002_007E")
                              + count("B03002_008E") + count("B03002_009E")

RaceOrder == <<"white", "black", "asian", "hispanic", "other">>

\* C22: the majority_race of every unit of the output is a category of
\* maximal share among white, black, asian, hispanic, other, and of the
\* categories that tie for the maximum it is the first in that order.
C22_MajorityIsFirstMaximum ==
    Returned =>
        \A n \in DOMAIN CensusOutput :
            \E i \in DOMAIN RaceOrder :
                /\ CensusOutput[n].majority_race = RaceOrder[i]
                /\ \A j \in DOMAIN RaceOrder :
                      RaceCount(InputOf(CensusOutput[n]), RaceOrder[j])
                         <= RaceCount(InputOf(CensusOutput[n]), RaceOrder[i])
                /\ \A j \in DOMAIN RaceOrder :
                      j < i => RaceCount(InputOf(CensusOutput[n]), RaceOrder[j])
                                  < RaceCount(InputOf(CensusOutput[n]), RaceOrder[i])

\* a tie between asian and hispanic decided for asian, beside a unit whose
\* maximum is the last category
C22_Witness ==
    /\ Returned
    /\ \E n, k \in DOMAIN CensusOutput :
          /\ CensusOutput[n].majority_race = "asian"
          /\ CensusOutput[n].pct_asian = CensusOutput[n].pct_hispanic
          /\ CensusOutput[n].pct_asian.num > 0
          /\ CensusOutput[k].majority_race = "other"

----------------------------------------------------------------------------
(* CensusDataCleaner: the requests of one load *)

\* what a county's request meets: a network or transport error, or a
\* response with its rows after the header
Raises == [raises |-> TRUE, data |-> <<>>]

Response(data) == [raises |-> FALSE, data |-> data]

Answers ==
    {Raises,
     Response(<<>>),
     Response(<<<<JsonStr(<<"1", "2">>), JsonStr(<<"3">>)>>>>),
     Response(<<<<JsonStr(<<"0">>), JsonNull>>>>)}

\* _fetch_county_data, lines 138-161: the frame of one county, empty when
\* the request raises or the response has no row
CountyFrame(answer) ==
    IF answer.raises \/ Len(answer.data) < 1 THEN <<>>
    ELSE [i \in DOMAIN answer.data |->
             [tract |-> i] @@
             Tract([B03002_001E |-> ToNumeric(answer.data[i][1]),
                    B19013_001E |-> ToNumeric(answer.data[i][2])])]

\* every frame collected so far given up when a request raises
CombinedOrNothing(all_data, county, answer) ==
    IF answer.raises THEN <<>>
    ELSE all_data \o [i \in DOMAIN CountyFrame(answer) |->
                         [county |-> county] @@ CountyFrame(answer)[i]]

\* _fetch_all_nyc_data, lines 117-125: a frame that is not empty gets its
\* county name and joins the combined frame
Combined(all_data, county, answer) ==
    all_data \o [i \in DOMAIN CountyFrame(answer) |->
                    [county |-> county] @@ CountyFrame(answer)[i]]

\* the table load_and_clean builds from a combined frame, lines 96-105
Demographics(combined) ==
    EachRow(SelectFinalColumns,
       EachRow(ProcessRace, EachRow(ProcessEducation, CleanData(combined))))

\* the outcomes of a load whatever the combined frame holds
LoadResultsUnchecked(combined) ==
    {[stage |-> "returned", cache |-> Df(Demographics(combined))]}

\* the outcomes of load_and_clean, lines 91-108, on the combined frame
LoadResults(combined) ==
    IF combined = <<>>
    THEN {[stage |-> "ValueError", cache |-> None]}
    ELSE {[stage |-> o,
           cache |-> IF o = "returned" THEN Df(Demographics(combined)) ELSE None] :
             o \in ProcessedOutcomes(CleanData(combined))}

\* one pass of the loop of _fetch_all_nyc_data: the next county is requested
_fetch_county_data ==
    /\ ~census.isNone
    /\ census.stage = "fetching"
    /\ Len(census.requested) < Len(NYC_COUNTIES)
    /\ LET county == NYC_COUNTIES[Len(census.requested) + 1]
       IN  census' = [census EXCEPT
                         !.requested = Append(census.requested, county),
                         !.combined = Combined(census.combined, county,
                                               census.answers[county])]
    /\ UNCHANGED CensusFrame

\* load_and_clean once the loop has ended, lines 91-108
census_load_and_clean ==
    /\ ~census.isNone
    /\ census.stage = "fetching"
    /\ Len(census.requested) = Len(NYC_COUNTIES)
    /\ \E result \in LoadResults(census.combined) :
          census' = [census EXCEPT !.stage = result.stage,
                                   !._df_demographics = result.cache]
    /\ UNCHANGED CensusFrame

\* a cleaner constructed with a credential, load_and_clean called
InitFetch ==
    /\ election_type = "mayor"
    /\ raw = <<>>
    /\ _df_candidate = None
    /\ _df_ballot_type = None
    /\ _merged_districts = None
    /\ outcome = "constructed"
    /\ gdf = <<>>
    /\ call = None
    /\ pivot = None
    /\ run = None
    /\ \E answers \in [Range(NYC_COUNTIES) -> Answers] :
          census = [isNone |-> FALSE, stage |-> "fetching", answers |-> answers,
                    requested |-> <<>>, combined |-> <<>>,
                    _df_demographics |-> None]

FetchNext == _fetch_county_data \/ census_load_and_clean

SpecFetch == InitFetch /\ [][FetchNext]_vars

\* the rows of the combined frame that carry a county's name
RowsOf(county) == SelectSeq(census.combined, LAMBDA u : u.county = county)

\* the county's request yields rows
YieldsRows(county) ==
    ~census.answers[county].raises /\ census.answers[county].data # <<>>

\* C23: within one load the counties are requested once each in their
\* order; a county whose request fails adds no row and raises nothing, and
\* every row of every other requested county is in the combined frame.
C23_FailuresIsolated ==
    ~census.isNone =>
        /\ census.requested = SubSeq(NYC_COUNTIES, 1, Len(census.requested))
        /\ census.stage # "fetching" => census.requested = NYC_COUNTIES
        /\ \A i \in DOMAIN census.requested :
              LET county == census.requested[i]
              IN  Len(RowsOf(county)) =
                     IF census.answers[county].raises THEN 0
                     ELSE Len(census.answers[county].data)
        /\ (census.stage = "ValueError") => \A c \in Range(NYC_COUNTIES) : ~YieldsRows(c)

\* the first request has failed, the last has yielded a row, the load has
\* returned
C23_Witness ==
    /\ ~census.isNone
    /\ census.stage = "returned"
    /\ census.answers["New York"].raises
    /\ census.answers["Kings"].raises
    /\ YieldsRows("Richmond")
    /\ Len(RowsOf("Richmond")) = 1
    /\ Len(census.requested) = 5

\* C24: a load in which no county yields rows fails with ValueError and
\* leaves the cached table unset; a load in which a county yields rows
\* does not fail so.
C24_NoRowsFailsLoad ==
    (~census.isNone /\ census.stage # "fetching") =>
        IF \A c \in Range(NYC_COUNTIES) : ~YieldsRows(c)
        THEN census.stage = "ValueError" /\ census._df_demographics = None
        ELSE census.stage # "ValueError"

\* a failed load: some requests raised, the others answered without a row
C24_Witness ==
    /\ ~census.isNone
    /\ census.stage = "ValueError"
    /\ census._df_demographics = None
    /\ \E c, d \in Range(NYC_COUNTIES) :
          /\ census.answers[c].raises
          /\ ~census.answers[d].raises

----------------------------------------------------------------------------
(* Roster membership and the name map *)

\* the in-play rows whose stripped label is a short name of the name map
ShortNamed(t, rows) ==
    SelectSeq(InPlay(rows), LAMBDA r :
        BaseLabel(r.vote_choice) \in
            {ELECTION_CONFIGS[t].name_map[k] : k \in DOMAIN ELECTION_CONFIGS[t].name_map})

\* C29: an in-play row whose label is a short name of the name map and no
\* roster entry is in neither table: the votes of the two tables are those
\* of the in-play rows whose stripped label is a roster entry or a ballot
\* type, and the tables are those of the file without the short-named rows.
C29_ShortNameNotInRoster ==
    outcome = "returned" =>
        /\ OutputVotes =
              RawVotes(SelectSeq(InPlay(raw), LAMBDA r : Recognized(election_type, r)))
        /\ \A i \in DOMAIN ShortNamed(election_type, raw) :
              ~Recognized(election_type, ShortNamed(election_type, raw)[i])
        /\ Rows(_df_candidate) =
              LoadTables(election_type,
                         SelectSeq(raw, LAMBDA r :
                            ~(r.note = IN_PLAY /\ BaseLabel(r.vote_choice) \in
                                 {"Zohran Mamdani", "Trump"}))).candidate

\* a mayoral file with 7 votes for 'Zohran Mamdani' beside 7 for 'Zohran
\* Kwame Mamdani' in one district: the candidate table records 7
C29_Witness ==
    /\ outcome = "returned"
    /\ election_type = "mayor"
    /\ \E i, j \in DOMAIN raw :
          /\ raw[i].vote_choice = ShortMamdaniLabel
          /\ raw[j].vote_choice = MamdaniLabel
          /\ raw[i].election_district = raw[j].election_district
    /\ \E k \in DOMAIN raw : raw[k].vote_choice = ShortTrumpLabel
    /\ Len(Rows(_df_candidate)) = 1
    /\ Rows(_df_candidate)[1].vote_choice = "Zohran Mamdani"
    /\ Rows(_df_candidate)[1].vote_count = 7

----------------------------------------------------------------------------
(* Lazy loading *)

\* a candidate row, a ballot-type row, a merged district and a row whose
\* count does not parse
LazyRows ==
    {[assembly_district |-> <<"6", "5">>, election_district |-> <<"1", "2">>,
      county |-> "New York", note |-> c[1], vote_choice |-> c[2],
      vote_count |-> c[3]] :
        c \in {<<IN_PLAY, MamdaniLabel, <<"7">> >>,
               <<IN_PLAY, PublicCounterLabel, <<"7">> >>,
               <<MergedNote, MamdaniLabel, <<"7">> >>,
               <<IN_PLAY, MamdaniLabel, <<"x">> >>}}

\* the file at filepath is rewritten between two operations: a row is
\* added at its end or its last row is removed
file_changes ==
    /\ \/ \E r \in LazyRows : Len(raw) < MaxRows /\ raw' = Append(raw, r)
       \/ raw # <<>> /\ raw' = SubSeq(raw, 1, Len(raw) - 1)
    /\ UNCHANGED <<election_type, _df_candidate, _df_ballot_type,
                   _merged_districts, outcome, gdf, call, downstream>>

InitLazy == InitCleaner(LazyRows)

LazyNext == CleanerNext \/ file_changes

SpecLazy == InitLazy /\ [][LazyNext]_vars

caches == <<_df_candidate, _df_ballot_type, _merged_districts>>

\* the three tables of a load of the file as it is now
FreshCaches ==
    <<Df(LoadTables(election_type, raw).candidate),
      Df(LoadTables(election_type, raw).ballot_type),
      Df(LoadTables(election_type, raw).merged)>>

\* C28: a read of a property whose cache is set loads nothing; a read of a
\* property whose cache is unset, and every explicit load_and_clean, reads
\* the file as it is now and, when it succeeds, replaces the three caches
\* together; the caches change in no other way, so the three tables always
\* come from one load.
C28_LazyLoading ==
    [][/\ (df_candidate /\ ~_df_candidate.isNone) => UNCHANGED caches
       /\ (df_ballot_type /\ ~_df_ballot_type.isNone) => UNCHANGED caches
       /\ (merged_districts /\ ~_merged_districts.isNone) => UNCHANGED caches
       /\ (load_and_clean /\ LoadOk(raw)) => caches' = FreshCaches
       /\ (load_and_clean /\ ~LoadOk(raw)) => UNCHANGED caches
       /\ (caches' # caches) => (raw' = raw /\ LoadOk(raw) /\ caches' = FreshCaches)
       /\ (_df_candidate'.isNone <=> _df_ballot_type'.isNone)
       /\ (_df_candidate'.isNone <=> _merged_districts'.isNone)]_vars

\* the caches of an earlier load are still held after the file has changed
\* to one that would load differently
C28_Witness ==
    /\ outcome = "returned"
    /\ ~_df_candidate.isNone
    /\ LoadOk(raw)
    /\ caches # FreshCaches
    /\ Len(Rows(_df_candidate)) = 1

----------------------------------------------------------------------------
(* load_and_merge_data: the joined district table *)

\* f'{candidate.lower().replace(" ", "_")}_pct' for the candidates that get
\* a percentage column
PctName(candidate) ==
    CASE candidate = "Zohran Mamdani" -> "zohran_mamdani_pct"
      [] candidate = "Andrew Cuomo" -> "andrew_cuomo_pct"
      [] candidate = "Curtis Sliwa" -> "curtis_sliwa_pct"
      [] candidate = "Trump" -> "trump_pct"
      [] candidate = "Harris" -> "harris_pct"

TotalName(t) == IF t = "mayor" THEN "mayor_total" ELSE "pres_total"

\* a pivot after reset_index: a frame with its columns and its rows
FlatPivot(t, cand) ==
    LET pv == PivotTable(t, cand)
        cands == PivotColumns(cand)
        pcts == Range(PctCandidates(t))
        cols == {"ElectDist", TotalName(t)} \cup cands \cup {PctName(c) : c \in pcts}
    IN  [cols |-> cols,
         rows |-> [n \in DOMAIN pv |->
                     [col \in cols |->
                         IF col = "ElectDist" THEN pv[n].ElectDist
                         ELSE IF col = TotalName(t) THEN pv[n].total
                         ELSE IF col \in cands THEN pv[n].votes[col]
                         ELSE pv[n].pct[CHOOSE c \in pcts : PctName(c) = col]]]]

\* the missing value of the county column of a row without a match
NoCounty == "nan"

\* the value a left merge gives a column of the right frame in a row
\* without a match
NaFill(col) == IF col = "county" THEN NoCounty ELSE NaN

RECURSIVE Flatten(_)
Flatten(ss) == IF ss = <<>> THEN <<>> ELSE Head(ss) \o Flatten(Tail(ss))

\* a merge in which a column of the right frame replaces the column of the
\* same name of the left frame
MergeLeftOverwrite(L, R, key, ls, rs) ==
    LET cols == L.cols \cup R.cols
        Matches(l) == SelectSeq(R.rows, LAMBDA r : r[key] = l[key])
        RowsFor(l) ==
            IF Matches(l) = <<>>
            THEN <<[col \in cols |-> IF col \in L.cols THEN l[col] ELSE NaFill(col)]>>
            ELSE [k \in DOMAIN Matches(l) |->
                     [col \in cols |-> IF col \in R.cols THEN Matches(l)[k][col]
                                       ELSE l[col]]]
    IN  [cols |-> cols,
         rows |-> Flatten([i \in DOMAIN L.rows |-> RowsFor(L.rows[i])])]

\* L.merge(R, on=key, how='left', suffixes=(ls, rs)): every row of L in its
\* order, once per matching row of R, columns named in both frames renamed
MergeLeft(L, R, key, ls, rs) ==
    LET overlap == (L.cols \cap R.cols) \ {key}
        LName(c) == IF c \in overlap THEN c \o ls ELSE c
        RName(c) == IF c \in overlap THEN c \o rs ELSE c
        fromL == {LName(c) : c \in L.cols}
        cols == fromL \cup {RName(c) : c \in R.cols \ {key}}
        LCol(col) == CHOOSE c \in L.cols : LName(c) = col
        RCol(col) == CHOOSE c \in R.cols \ {key} : RName(c) = col
        Matches(l) == SelectSeq(R.rows, LAMBDA r : r[key] = l[key])
        RowsFor(l) ==
            IF Matches(l) = <<>>
            THEN <<[col \in cols |-> IF col \in fromL THEN l[LCol(col)]
                                     ELSE NaFill(col)]>>
            ELSE [k \in DOMAIN Matches(l) |->
                     [col \in cols |-> IF col \in fromL THEN l[LCol(col)]
                                       ELSE Matches(l)[k][RCol(col)]]]
    IN  [cols |-> cols,
         rows |-> Flatten([i \in DOMAIN L.rows |-> RowsFor(L.rows[i])])]

\* gpd.read_file and astype(int): the boundary frame, its geometry left out
Boundary(shapefile) ==
    [cols |-> {"ElectDist"},
     rows |-> [i \in DOMAIN shapefile |-> [c \in {"ElectDist"} |-> shapefile[i]]]]

\* the pairs of the candidate records of both contests
CountyMapOfBoth(df_mayor, df_pres) ==
    [cols |-> {"ElectDist", "county"},
     rows |-> DropDuplicates([n \in DOMAIN (df_mayor \o df_pres) |->
                 [c \in {"ElectDist", "county"} |-> (df_mayor \o df_pres)[n][c]]])]

\* df_mayor[['ElectDist', 'county']].drop_duplicates()
CountyMap(df_mayor, df_pres) ==
    [cols |-> {"ElectDist", "county"},
     rows |-> DropDuplicates([n \in DOMAIN df_mayor |->
                 [c \in {"ElectDist", "county"} |-> df_mayor[n][c]]])]

\* a difference of two percentage columns: NaN when either is
PctDiff(a, b) == IF IsNa(a) \/ IsNa(b) THEN Missing ELSE Number(a - b)

\* map_utils.py lines 114-125 on one row
WithDerived(r) ==
    [vote_diff |-> PctDiff(r["zohran_mamdani_pct"], r["trump_pct"]),
     mayor_diff |-> PctDiff(r["zohran_mamdani_pct"], r["andrew_cuomo_pct"]),
     pres_diff |-> PctDiff(r["harris_pct"], r["trump_pct"]),
     bivariate_category |->
        assign_bivariate_category(r["zohran_mamdani_pct"], r["trump_pct"],
                                  DefaultThreshold)] @@ r

\* load_and_merge_data, lines 59-130, from the two tally files and the
\* ElectDist values of the shapefile
MergeData(mayorFile, presFile, shapefile) ==
    LET df_mayor == LoadTables("mayor", mayorFile).candidate
        df_pres == LoadTables("president", presFile).candidate
        g1 == MergeLeft(Boundary(shapefile), FlatPivot("mayor", df_mayor),
                        "ElectDist", "_x", "_y")
        g2 == MergeLeft(g1, FlatPivot("president", df_pres),
                        "ElectDist", "_mayor", "_pres")
        g3 == MergeLeft(g2, CountyMap(df_mayor, df_pres), "ElectDist", "_x", "_y")
    IN  EachRow(WithDerived, g3.rows)

\* the county table of create_demographic_maps.py lines 83-91 for the
\* counties the Census table covers, in the order of groupby
CountyDemo(covered) ==
    [cols |-> {"county", "median_income"},
     rows |-> SelectSeq(<<[county |-> "Kings", median_income |-> 5],
                          [county |-> "New York", median_income |-> 3]>>,
                        LAMBDA r : r.county \in covered)]

\* one percentage column of a pivot with its key, lines 40-46 and 55-61
PctOnly(t, cand, candidate, name) ==
    LET pv == PivotTable(t, cand)
    IN  [cols |-> {"ElectDist", name},
         rows |-> [n \in DOMAIN pv |->
                     [col \in {"ElectDist", name} |->
                         IF col = "ElectDist" THEN pv[n].ElectDist
                         ELSE pv[n].pct[candidate]]]]

\* load_election_and_demographic_data, lines 27-98
DemographicData(mayorFile, presFile, shapefile, covered) ==
    LET df_mayor == LoadTables("mayor", mayorFile).candidate
        df_pres == LoadTables("president", presFile).candidate
        g1 == MergeLeft(Boundary(shapefile),
                        PctOnly("mayor", df_mayor, "Zohran Mamdani", "mamdani_pct"),
                        "ElectDist", "_x", "_y")
        g2 == MergeLeft(g1, PctOnly("president", df_pres, "Trump", "trump_pct"),
                        "ElectDist", "_x", "_y")
        g3 == MergeLeft(g2, CountyMap(df_mayor, df_pres), "ElectDist", "_x", "_y")
    IN  MergeLeft(g3, CountyDemo(covered), "county", "_x", "_y").rows

MergeFrame == <<election_type, raw, _df_candidate, _df_ballot_type,
                _merged_districts, outcome, call, pivot, census>>

\* a call of load_and_merge_data
load_and_merge_data ==
    /\ ~run.isNone
    /\ run.runs < MaxRuns
    /\ gdf' = MergeData(raw, run.president, run.shapefile)
    /\ run' = [run EXCEPT !.runs = run.runs + 1]
    /\ UNCHANGED MergeFrame

\* create_borough_map(gdf, county_code), line 284
create_borough_map ==
    /\ ~run.isNone
    /\ gdf # <<>>
    /\ run.borough.isNone
    /\ \E county_code \in {"New York", "Kings"} :
          run' = [run EXCEPT !.borough =
                     [isNone |-> FALSE, county_code |-> county_code,
                      rows |-> SelectSeq(gdf, LAMBDA r : r["county"] = county_code)]]
    /\ UNCHANGED <<gdf, MergeFrame>>

\* a call of load_election_and_demographic_data with a Census table that
\* covers some of the counties
load_election_and_demographic_data ==
    /\ ~run.isNone
    /\ run.demographic.isNone
    /\ \E covered \in {{"Kings", "New York"}, {"Kings"}} :
          run' = [run EXCEPT !.demographic =
                     Df(DemographicData(raw, run.president, run.shapefile, covered))]
    /\ UNCHANGED <<gdf, MergeFrame>>

TallyRow(ad, ed, county, label, count) ==
    [assembly_district |-> ad, election_district |-> ed, county |-> county,
     note |-> IN_PLAY, vote_choice |-> label, vote_count |-> count]

\* the mayoral rows: two candidates in district 65012, the district under
\* a second county, a district outside the boundary
MayorTally ==
    <<TallyRow(<<"6", "5">>, <<"1", "2">>, "New York", MamdaniLabel, <<"2">>),
      TallyRow(<<"6", "5">>, <<"1", "2">>, "New York", ScatteredLabel, <<"1">>),
      TallyRow(<<"6", "5">>, <<"1", "2">>, "Kings", MamdaniLabel, <<"2">>),
      TallyRow(<<"6", "5">>, <<"1", "5">>, "New York", ScatteredLabel, <<"1">>)>>

\* the presidential rows: two candidates in district 65012, one in 65013
PresidentTally ==
    <<TallyRow(<<"6", "5">>, <<"1", "2">>, "New York", TrumpLabel, <<"7">>),
      TallyRow(<<"6", "5">>, <<"1", "2">>, "New York", ScatteredLabel, <<"1">>),
      TallyRow(<<"6", "5">>, <<"1", "3">>, "New York", TrumpLabel, <<"7">>)>>

\* the files that hold some of the rows of a tally, in their order
FilesOf(tally) ==
    {SelectSeq(tally, LAMBDA r : r \in S) : S \in (SUBSET Range(tally)) \ {{}}}

\* the mayoral file, the presidential file and a shapefile of the first
\* districts of BoundaryKeys
InitMerge ==
    /\ election_type = "mayor"
    /\ raw \in FilesOf(MayorTally)
    /\ _df_candidate = None
    /\ _df_ballot_type = None
    /\ _merged_districts = None
    /\ outcome = "constructed"
    /\ gdf = <<>>
    /\ call = None
    /\ pivot = None
    /\ census = None
    /\ \E president \in FilesOf(PresidentTally), n \in 1..MaxDistricts :
          run = [isNone |-> FALSE, president |-> president,
                 shapefile |-> SubSeq(BoundaryKeys, 1, n), runs |-> 0,
                 borough |-> None, demographic |-> None]

MergeNext ==
    \/ load_and_clean
    \/ load_and_merge_data
    \/ create_borough_map
    \/ load_election_and_demographic_data

SpecMerge == InitMerge /\ [][MergeNext]_vars

----------------------------------------------------------------------------
(* Claims about the joined district table *)

\* the in-play rows of a tally file for a district whose label, without
\* its ballot line, is on the roster of the contest
RosterRecords(t, file, d) ==
    SelectSeq(file, LAMBDA r : /\ r.note = IN_PLAY
                               /\ ElectDist(RawAD(r), RawED(r)) = d
                               /\ BaseLabel(r.vote_choice) \in Roster(t))

RECURSIVE TallyVotes(_)
TallyVotes(rows) ==
    IF rows = <<>> THEN 0
    ELSE AsTypeInt(Head(rows).vote_count).val + TallyVotes(Tail(rows))

\* the votes a tally file records for 'Scattered' in a district
ScatteredVotes(t, file, d) ==
    TallyVotes(SelectSeq(RosterRecords(t, file, d),
                         LAMBDA r : BaseLabel(r.vote_choice) = "Scattered"))

\* the districts for which a tally file records 'Scattered'
ScatteredDistricts(t, file) ==
    {ElectDist(RawAD(file[i]), RawED(file[i])) : i \in
        {j \in DOMAIN file : /\ file[j].note = IN_PLAY
                              /\ BaseLabel(file[j].vote_choice) = "Scattered"}}

C26_OneRowPerBoundaryDistrict ==
    (~run.isNone /\ "shapefile" \in DOMAIN run /\ gdf # <<>>) =>
        /\ Len(gdf) = Len(run.shapefile)
        /\ \A i \in DOMAIN gdf : gdf[i]["ElectDist"] = run.shapefile[i]

\* C27: when both contests record 'Scattered', every row of the joined
\* table has the two columns Scattered_mayor and Scattered_pres and no column
\* Scattered; each holds the votes of its own contest for the district, or
\* no value when that contest has no candidate record there; and each
\* difference column is the difference of two percentage columns of the
\* same row, without a value when either has none.
C27_SharedNameKeptApart ==
    (/\ ~run.isNone /\ "president" \in DOMAIN run /\ gdf # <<>>
     /\ ScatteredDistricts("mayor", raw) # {}
     /\ ScatteredDistricts("president", run.president) # {}) =>
        \A i \in DOMAIN gdf :
            LET r == gdf[i]
                d == r["ElectDist"]
            IN  /\ {"Scattered_mayor", "Scattered_pres"} \subseteq DOMAIN r
                /\ "Scattered" \notin DOMAIN r
                /\ r["Scattered_mayor"] =
                      IF RosterRecords("mayor", raw, d) = <<>> THEN NaN
                      ELSE ScatteredVotes("mayor", raw, d)
                /\ r["Scattered_pres"] =
                      IF RosterRecords("president", run.president, d) = <<>> THEN NaN
                      ELSE ScatteredVotes("president", run.president, d)
                /\ {"zohran_mamdani_pct", "andrew_cuomo_pct", "trump_pct",
                    "harris_pct"} \subseteq DOMAIN r
                /\ r["vote_diff"] =
                      IF r["zohran_mamdani_pct"] = NaN \/ r["trump_pct"] = NaN
                      THEN Missing
                      ELSE Number(r["zohran_mamdani_pct"] - r["trump_pct"])
                /\ r["mayor_diff"] =
                      IF r["zohran_mamdani_pct"] = NaN \/ r["andrew_cuomo_pct"] = NaN
                      THEN Missing
                      ELSE Number(r["zohran_mamdani_pct"] - r["andrew_cuomo_pct"])
                /\ r["pres_diff"] =
                      IF r["harris_pct"] = NaN \/ r["trump_pct"] = NaN
                      THEN Missing
                      ELSE Number(r["harris_pct"] - r["trump_pct"])

\* district 65012 with 1 vote for 'Scattered' beside 2 for Mamdani in the
\* mayoral file and 1 beside 7 for Trump in the presidential file
C27_Witness ==
    /\ ~run.isNone /\ "president" \in DOMAIN run
    /\ \E i \in DOMAIN gdf :
          /\ gdf[i]["ElectDist"] = 65012
          /\ "Scattered_mayor" \in DOMAIN gdf[i]
          /\ gdf[i]["Scattered_mayor"] = 1
          /\ gdf[i]["Scattered_pres"] = 1
          /\ gdf[i]["mayor_total"] = 3
          /\ gdf[i]["pres_total"] = 8
          /\ gdf[i]["vote_diff"] # Missing

\* C30: a district of the boundary with a presidential candidate record
\* and no mayoral one has no county in the joined table although its
\* trump_pct has a value; it is in no borough's subset, and in the
\* demographic table it has no county and no county-level attribute
\* although its trump_pct has a value.
C30_CountyFromMayoralOnly ==
    (~run.isNone /\ "president" \in DOMAIN run) =>
        \A d \in Range(run.shapefile) :
            (/\ RosterRecords("president", run.president, d) # <<>>
             /\ RosterRecords("mayor", raw, d) = <<>>) =>
                /\ \A i \in DOMAIN gdf :
                      gdf[i]["ElectDist"] = d =>
                          /\ gdf[i]["county"] = NoCounty
                          /\ gdf[i]["trump_pct"] # NaN
                /\ ~run.borough.isNone =>
                      \A i \in DOMAIN run.borough.rows :
                          run.borough.rows[i]["ElectDist"] # d
                /\ ~run.demographic.isNone =>
                      \A i \in DOMAIN run.demographic.rows :
                          run.demographic.rows[i]["ElectDist"] = d =>
                              /\ run.demographic.rows[i]["county"] = NoCounty
                              /\ run.demographic.rows[i]["median_income"] = NaN
                              /\ run.demographic.rows[i]["trump_pct"] # NaN

\* district 65013 with 7 votes for Trump and no mayoral record, joined; a
\* borough subset taken that holds district 65012; the demographic table
\* built with an income for district 65012
C30_Witness ==
    /\ ~run.isNone /\ "president" \in DOMAIN run
    /\ \E i \in DOMAIN gdf :
          /\ gdf[i]["ElectDist"] = 65013
          /\ gdf[i]["trump_pct"] = 10000
          /\ gdf[i]["county"] = NoCounty
    /\ ~run.borough.isNone
    /\ \E i \in DOMAIN run.borough.rows : run.borough.rows[i]["ElectDist"] = 65012
    /\ ~run.demographic.isNone
    /\ \E i, j \in DOMAIN run.demographic.rows :
          /\ run.demographic.rows[i]["ElectDist"] = 65013
          /\ run.demographic.rows[i]["median_income"] = NaN
          /\ run.demographic.rows[j]["ElectDist"] = 65012
          /\ run.demographic.rows[j]["median_income"] # NaN

====
